---- MODULE Spec2Model ----
(***************************************************************************)
(* Conversation-turn pipeline of docutalk: the in-memory session store     *)
(* (server/services/conversationManager.js), the chat route                *)
(* (server/routes/chat.js) and the sequential tool executor                *)
(* (server/utils/streamProcessor.js).                                      *)
(*                                                                         *)
(* Every `await` of the JavaScript source is a suspension point: the code  *)
(* between two awaits is one atomic action, and other requests, the sweep  *)
(* timer and the clock may take steps in between.  LoopSpec alone lets     *)
(* them in only at the awaits that wait for I/O, as the event loop does    *)
(* when the awaited promise is one of the in-memory history.               *)
(***************************************************************************)
EXTENDS Integers, Sequences, FiniteSets, TLC

\* ---------------------------------------------------------------- bounds
MaxTime == 7         \* the clock stops advancing here (unit: one cleanupInterval)
MaxObj == 2          \* session objects ever created in one behaviour
MaxArr == 3          \* message arrays ever allocated in one behaviour
MaxAppends == 2      \* addMessage calls started through the store API
MaxItems == 4        \* frames and stray lines in one upstream body

\* ------------------------------------------------------ program constants
maxMessagesPerSession == 10
\* 30 * 60 * 1000 ms, expressed in units of cleanupInterval (5 * 60 * 1000 ms)
sessionTimeout == 6

Null == "null"
SessIds == {"s1", "s2"}
Ctxs == {"ctxA", "ctxB"}
Callers == {"c1", "c2"}
Turns == {"t1"}
Procs == Turns \cup Callers

\* message contents are sequences of characters
Contents == {<<"x">>}
HistChars == <<"h1", "h2", "h3", "h4", "h5", "h6", "h7", "h8", "h9", "h10", "h11">>

HumanMessage(content) == [role |-> "user", content |-> content]
AIMessage(content) == [role |-> "assistant", content |-> content]

\* the history a session holds after n earlier appends (n <= maxMessagesPerSession)
OldMessages(n) ==
    [i \in 1..n |-> IF i % 2 = 1 THEN HumanMessage(<<HistChars[i]>>)
                                 ELSE AIMessage(<<HistChars[i]>>)]

Min(a, b) == IF a < b THEN a ELSE b

\* slice(0, n) in place of slice(-n): the window keeps the oldest messages
SliceFirst(s, n) ==
    IF Len(s) <= n THEN s ELSE SubSeq(s, 1, n)

\* Array.prototype.slice(-n) for n > 0
SliceLast(s, n) ==
    IF Len(s) <= n THEN s ELSE SubSeq(s, Len(s) - n + 1, Len(s))

VARIABLES
    cm,      \* the conversationManager singleton: sessions map, session objects, message arrays
    now,     \* Date.now()
    pc,      \* per request / call: the suspension point it is parked at
    loc,     \* per request / call: local variables of the store method being executed
    ret,     \* the value the store method that returned last handed to its caller
    log,     \* per session id: messages appended since the session object was created
    nAdds,   \* number of addMessage calls started through the store API
    turn,    \* per POST /api/chat request: its local variables and its response
    br,      \* the protocol bridge handling one POST: its locals and its output stream
    client   \* a client of the session endpoints: where it is in its requests

storeVars == <<cm, now, pc, loc, ret, log, nAdds>>
vars == <<cm, now, pc, loc, ret, log, nAdds, turn, br, client>>

\* ------------------------------------------------------- ConversationManager
\* cm.sessions[sid] : 0 (no entry) or the index of the session object in cm.objs
\* cm.objs[o]       : [history (index of the array history.messages refers to),
\*                     lastAccessed, context]
\* cm.arrays[a]     : contents of a message array; a reference is an index

Has(S, sid) == S.sessions[sid] # 0

CanAlloc(S) == Len(S.objs) < MaxObj /\ Len(S.arrays) < MaxArr
CanAllocArr(S) == Len(S.arrays) < MaxArr

\* a lookup that stamps a session only when it creates it
getOrCreateWithoutTouch(S, sid, t) ==
    IF ~Has(S, sid)
    THEN [S EXCEPT !.sessions[sid] = Len(S.objs) + 1,
                   !.objs = Append(@, [history |-> Len(S.arrays) + 1,
                                       lastAccessed |-> t,
                                       context |-> Null]),
                   !.arrays = Append(@, <<>>)]
    ELSE S

\* a store whose new sessions all share the first history ever allocated
getOrCreateSharedHistory(S, sid, t) ==
    IF ~Has(S, sid)
    THEN [S EXCEPT !.sessions[sid] = Len(S.objs) + 1,
                   !.objs = Append(@, [history |-> 1,
                                       lastAccessed |-> t,
                                       context |-> Null]),
                   !.arrays = Append(@, <<>>)]
    ELSE [S EXCEPT !.objs[S.sessions[sid]].lastAccessed = t]

getOrCreateSession(S, sid, t) ==
    IF ~Has(S, sid)
    THEN [S EXCEPT !.sessions[sid] = Len(S.objs) + 1,
                   !.objs = Append(@, [history |-> Len(S.arrays) + 1,
                                       lastAccessed |-> t,
                                       context |-> Null]),
                   !.arrays = Append(@, <<>>)]
    ELSE [S EXCEPT !.objs[S.sessions[sid]].lastAccessed = t]

\* a history that puts the new message in front (unshift in place of push)
historyPrependMessage(S, o, m) ==
    [S EXCEPT !.arrays[S.objs[o].history] = <<m>> \o @]

\* InMemoryChatMessageHistory.addMessage on session object o: this.messages.push(m)
historyAddMessage(S, o, m) ==
    [S EXCEPT !.arrays[S.objs[o].history] = Append(@, m)]

\* InMemoryChatMessageHistory.clear on session object o: this.messages = []
historyClear(S, o) ==
    [S EXCEPT !.objs[o].history = Len(S.arrays) + 1,
              !.arrays = Append(@, <<>>)]

\* a setter that keeps a context already stored (first write wins)
setSessionContextOnce(S, sid, context, t) ==
    LET S1 == getOrCreateSession(S, sid, t)
    IN IF S1.objs[S1.sessions[sid]].context # Null THEN S1
       ELSE [S1 EXCEPT !.objs[S1.sessions[sid]].context = context]

setSessionContext(S, sid, context, t) ==
    LET S1 == getOrCreateSession(S, sid, t)
    IN [S1 EXCEPT !.objs[S1.sessions[sid]].context = context]

getSessionContext(S, sid) ==
    IF Has(S, sid) THEN S.objs[S.sessions[sid]].context ELSE Null

Messages(S, sid) == S.arrays[S.objs[S.sessions[sid]].history]

NoLoc == [sid |-> Null, session |-> 0, messages |-> 0, keep |-> <<>>, retpc |-> "idle"]

\* an addMessage that looks the session up with sessions.get and drops the message
\* when the session is gone
AddMessageIfPresent(p, sid, content, isUser, retpc) ==
    /\ CanAlloc(cm)
    /\ LET m == IF isUser THEN HumanMessage(content) ELSE AIMessage(content)
       IN IF Has(cm, sid)
          THEN /\ cm' = historyAddMessage(getOrCreateSession(cm, sid, now),
                                          cm.sessions[sid], m)
               /\ log' = [log EXCEPT ![sid] = Append(@, m)]
          ELSE UNCHANGED <<cm, log>>
    /\ loc' = [loc EXCEPT ![p] = [NoLoc EXCEPT !.sid = sid, !.retpc = retpc]]
    /\ pc' = [pc EXCEPT ![p] = "applyMessageWindowing"]

\* addMessage, up to its first await: getOrCreateSession, build the message,
\* history.addMessage pushes it
AddMessageStart(p, sid, content, isUser, retpc) ==
    /\ CanAlloc(cm)
    /\ LET S1 == getOrCreateSession(cm, sid, now)
           m == IF isUser THEN HumanMessage(content) ELSE AIMessage(content)
       IN /\ cm' = historyAddMessage(S1, S1.sessions[sid], m)
          /\ log' = [log EXCEPT ![sid] = Append(@, m)]
    /\ loc' = [loc EXCEPT ![p] = [NoLoc EXCEPT !.sid = sid, !.retpc = retpc]]
    /\ pc' = [pc EXCEPT ![p] = "applyMessageWindowing"]

\* applyMessageWindowing, up to `await session.history.getMessages()`
WindowingLookup(p) ==
    /\ pc[p] = "applyMessageWindowing"
    /\ LET sid == loc[p].sid
       IN IF ~Has(cm, sid)
          THEN /\ pc' = [pc EXCEPT ![p] = loc[p].retpc]
               /\ loc' = [loc EXCEPT ![p] = NoLoc]
          ELSE /\ pc' = [pc EXCEPT ![p] = "windowingCheck"]
               /\ loc' = [loc EXCEPT ![p].session = cm.sessions[sid],
                                     ![p].messages = cm.objs[cm.sessions[sid]].history]
    /\ UNCHANGED <<cm, now, ret, log, nAdds>>

\* the length test, slice(-max) and `await session.history.clear()`
WindowingCheck(p) ==
    /\ pc[p] = "windowingCheck"
    /\ LET messages == cm.arrays[loc[p].messages]
       IN IF Len(messages) > maxMessagesPerSession
          THEN /\ CanAllocArr(cm)
               /\ cm' = historyClear(cm, loc[p].session)
               /\ loc' = [loc EXCEPT ![p].keep = SliceLast(messages, maxMessagesPerSession)]
               /\ pc' = [pc EXCEPT ![p] = "windowingReAdd"]
          ELSE /\ pc' = [pc EXCEPT ![p] = loc[p].retpc]
               /\ loc' = [loc EXCEPT ![p] = NoLoc]
               /\ cm' = cm
    /\ UNCHANGED <<now, ret, log, nAdds>>

\* one iteration of `for (const msg of messagesToKeep) await session.history.addMessage(msg)`
WindowingReAdd(p) ==
    /\ pc[p] = "windowingReAdd"
    /\ loc[p].keep # <<>>
    /\ cm' = historyAddMessage(cm, loc[p].session, Head(loc[p].keep))
    /\ IF Len(loc[p].keep) = 1
       THEN /\ pc' = [pc EXCEPT ![p] = loc[p].retpc]
            /\ loc' = [loc EXCEPT ![p] = NoLoc]
       ELSE /\ pc' = pc
            /\ loc' = [loc EXCEPT ![p].keep = Tail(@)]
    /\ UNCHANGED <<now, ret, log, nAdds>>

applyMessageWindowing(p) ==
    WindowingLookup(p) \/ WindowingCheck(p) \/ WindowingReAdd(p)

\* ---------------------------------------------- calls through the store API
addMessage(p) ==
    /\ pc[p] = "idle"
    /\ nAdds < MaxAppends
    /\ nAdds' = nAdds + 1
    /\ \E sid \in SessIds, content \in Contents, isUser \in BOOLEAN :
          AddMessageStart(p, sid, content, isUser, "idle")
    /\ UNCHANGED <<now, ret>>

\* getMessages up to `await history.getMessages()`, which yields the live array
GetMessagesStart(p, sid, limit, retpc) ==
    /\ CanAlloc(cm)
    /\ cm' = getOrCreateSession(cm, sid, now)
    /\ loc' = [loc EXCEPT ![p] = [NoLoc EXCEPT !.sid = sid,
                                               !.messages = cm'.objs[cm'.sessions[sid]].history,
                                               !.keep = limit,
                                               !.retpc = retpc]]
    /\ pc' = [pc EXCEPT ![p] = "getMessagesReturn"]

NoLimit == <<>>
Limits == {NoLimit, <<1>>}

\* the value getMessages returns: the array itself, or a slice when a limit applies
GetMessagesResult(S, l) ==
    LET messages == S.arrays[l.messages]
    IN IF l.keep # NoLimit /\ Len(messages) > l.keep[1]
       THEN [ref |-> 0, val |-> SliceLast(messages, l.keep[1])]
       ELSE [ref |-> l.messages, val |-> messages]

getMessages(p) ==
    \/ /\ pc[p] = "idle"
       /\ \E sid \in SessIds, limit \in Limits : GetMessagesStart(p, sid, limit, "idle")
       /\ UNCHANGED <<now, ret, log, nAdds>>
    \/ /\ pc[p] = "getMessagesReturn"
       /\ p \in Callers
       /\ ret' = [op |-> "getMessages", sid |-> loc[p].sid,
                                     val |-> GetMessagesResult(cm, loc[p]).val]
       /\ pc' = [pc EXCEPT ![p] = loc[p].retpc]
       /\ loc' = [loc EXCEPT ![p] = NoLoc]
       /\ UNCHANGED <<cm, now, log, nAdds>>

SetSessionContext(p) ==
    /\ pc[p] = "idle"
    /\ CanAlloc(cm)
    /\ \E sid \in SessIds, context \in Ctxs :
          cm' = setSessionContext(cm, sid, context, now)
    /\ UNCHANGED <<now, pc, loc, ret, log, nAdds>>

GetSessionContext(p) ==
    /\ pc[p] = "idle"
    /\ \E sid \in SessIds :
          ret' = [op |-> "getSessionContext", sid |-> sid,
                                    val |-> getSessionContext(cm, sid)]
    /\ UNCHANGED <<cm, now, pc, loc, log, nAdds>>

\* clearSession: `await session.history.clear()`, then this.sessions.delete(sessionId)
ClearSessionStart(p, sid) ==
    /\ pc[p] = "idle"
    /\ IF Has(cm, sid)
       THEN /\ CanAllocArr(cm)
            /\ cm' = historyClear(cm, cm.sessions[sid])
            /\ loc' = [loc EXCEPT ![p] = [NoLoc EXCEPT !.sid = sid]]
            /\ pc' = [pc EXCEPT ![p] = "clearSessionDelete"]
            /\ ret' = ret
       ELSE /\ ret' = [op |-> "clearSession", sid |-> sid, val |-> Null]
            /\ UNCHANGED <<cm, loc, pc>>
    /\ UNCHANGED <<now, log, nAdds>>

\* the second half of clearSession without its sessions.delete
ClearSessionKeepsEntry(p) ==
    /\ pc[p] = "clearSessionDelete"
    /\ ret' = [op |-> "clearSession", sid |-> loc[p].sid, val |-> Null]
    /\ pc' = [pc EXCEPT ![p] = "idle"]
    /\ loc' = [loc EXCEPT ![p] = NoLoc]
    /\ UNCHANGED <<cm, log, now, nAdds>>

ClearSessionDelete(p) ==
    /\ pc[p] = "clearSessionDelete"
    /\ cm' = [cm EXCEPT !.sessions[loc[p].sid] = 0]
    /\ log' = [log EXCEPT ![loc[p].sid] = <<>>]
    /\ ret' = [op |-> "clearSession", sid |-> loc[p].sid, val |-> Null]
    /\ pc' = [pc EXCEPT ![p] = "idle"]
    /\ loc' = [loc EXCEPT ![p] = NoLoc]
    /\ UNCHANGED <<now, nAdds>>

clearSession(p) ==
    (\E sid \in SessIds : ClearSessionStart(p, sid)) \/ ClearSessionDelete(p)

\* a getSessionInfo that looks the session up through getOrCreateSession, as
\* getMessages does
GetSessionInfoTouches(p, sid) ==
    /\ pc[p] = "idle"
    /\ CanAlloc(cm)
    /\ cm' = getOrCreateSession(cm, sid, now)
    /\ loc' = [loc EXCEPT ![p] = [NoLoc EXCEPT !.sid = sid,
                                               !.session = cm'.sessions[sid],
                                               !.messages = cm'.objs[cm'.sessions[sid]].history]]
    /\ pc' = [pc EXCEPT ![p] = "getSessionInfoReturn"]
    /\ ret' = ret
    /\ UNCHANGED <<now, log, nAdds>>

\* getSessionInfo: null for an unknown id, else `await session.history.getMessages()`
\* and then the fields are read
GetSessionInfoStart(p, sid) ==
    /\ pc[p] = "idle"
    /\ IF ~Has(cm, sid)
       THEN /\ ret' = [op |-> "getSessionInfo", sid |-> sid, val |-> Null]
            /\ UNCHANGED <<loc, pc>>
       ELSE /\ loc' = [loc EXCEPT ![p] = [NoLoc EXCEPT !.sid = sid,
                                                      !.session = cm.sessions[sid],
                                                      !.messages = cm.objs[cm.sessions[sid]].history]]
            /\ pc' = [pc EXCEPT ![p] = "getSessionInfoReturn"]
            /\ ret' = ret
    /\ UNCHANGED <<cm, now, log, nAdds>>

GetSessionInfoReturn(p) ==
    /\ pc[p] = "getSessionInfoReturn"
    /\ ret' =
                 [op |-> "getSessionInfo", sid |-> loc[p].sid,
                  val |-> [messageCount |-> Len(cm.arrays[loc[p].messages]),
                           lastAccessed |-> cm.objs[loc[p].session].lastAccessed,
                           age |-> now - cm.objs[loc[p].session].lastAccessed]]
    /\ pc' = [pc EXCEPT ![p] = "idle"]
    /\ loc' = [loc EXCEPT ![p] = NoLoc]
    /\ UNCHANGED <<cm, now, log, nAdds>>

getSessionInfo(p) ==
    (\E sid \in SessIds : GetSessionInfoStart(p, sid)) \/ GetSessionInfoReturn(p)

\* a sweep that already removes a session whose inactivity equals the timeout
ExpiredAtTimeout(S, sid, t) ==
    Has(S, sid) /\ t - S.objs[S.sessions[sid]].lastAccessed >= sessionTimeout

\* the setInterval callback of startCleanup: one synchronous pass over the map
Expired(S, sid, t) ==
    Has(S, sid) /\ t - S.objs[S.sessions[sid]].lastAccessed > sessionTimeout

\* a callback that only counts the inactive sessions and deletes none
SweepCountsOnly ==
    /\ \E sid \in SessIds : Expired(cm, sid, now)
    /\ UNCHANGED <<cm, log, now, pc, loc, ret, nAdds>>

startCleanup ==
    /\ \E sid \in SessIds : Expired(cm, sid, now)
    /\ cm' = [cm EXCEPT !.sessions =
                 [sid \in SessIds |-> IF Expired(cm, sid, now) THEN 0 ELSE @[sid]]]
    /\ log' = [sid \in SessIds |-> IF Expired(cm, sid, now) THEN <<>> ELSE log[sid]]
    /\ UNCHANGED <<now, pc, loc, ret, nAdds>>

Tick ==
    /\ now < MaxTime
    /\ now' = now + 1
    /\ UNCHANGED <<cm, pc, loc, ret, log, nAdds>>

\* ------------------------------------------------------------ POST /api/chat
MaxChunks == 2        \* chunks the first-pass generation stream delivers at most
MaxSynthChunks == 2   \* chunks the synthesis stream delivers at most

\* join() without its argument: the parts are separated by commas
RECURSIVE JoinDefaultSeparator(_)
JoinDefaultSeparator(parts) ==
    IF parts = <<>> THEN <<>>
    ELSE IF Len(parts) = 1 THEN parts[1]
    ELSE parts[1] \o <<",">> \o JoinDefaultSeparator(Tail(parts))

\* text fragments are sequences of characters; `join('')` flattens a list of them
RECURSIVE Join(_)
Join(parts) == IF parts = <<>> THEN <<>> ELSE Head(parts) \o Join(Tail(parts))

\* tools registered by getAvailableTools(), and a name the model may hallucinate
RegisteredTools == {"list_documents", "summarize_topic"}
ToolNames == {"list_documents", "web_search"}

\* request bodies: message is a non-empty string, an empty string, or not a string
Messages_ == {[isString |-> TRUE, text |-> <<"q">>],
              [isString |-> TRUE, text |-> <<>>],
              [isString |-> FALSE, text |-> <<>>]}
Requests == [message : Messages_, sessionId : {"s1"}, context : {Null, "ctxA"}]

\* a validation that looks at the type of the message only
validateTypeOnly(req) ==
    IF ~req.message.isString
    THEN [isValid |-> FALSE, error |-> "Message is required and must be a string",
          message |-> <<>>, sessionId |-> Null, context |-> Null]
    ELSE [isValid |-> TRUE, error |-> Null,
          message |-> req.message.text,
          sessionId |-> IF req.sessionId # Null THEN req.sessionId ELSE "s2",
          context |-> req.context]

\* validateChatRequest; uuidv4() yields an id no session has: "s2" plays that part
validateChatRequest(req) ==
    IF ~req.message.isString \/ req.message.text = <<>>
    THEN [isValid |-> FALSE, error |-> "Message is required and must be a string",
          message |-> <<>>, sessionId |-> Null, context |-> Null]
    ELSE [isValid |-> TRUE, error |-> Null,
          message |-> req.message.text,
          sessionId |-> IF req.sessionId # Null THEN req.sessionId ELSE "s2",
          context |-> req.context]

\* chunks of the first-pass stream (AIMessageChunk): text, tool_call_chunks, or both
TextChunk(c) == [content |-> c, tool_call_chunks |-> <<>>]
ToolChunk(c, index, id, name, args) ==
    [content |-> c,
     tool_call_chunks |-> <<[index |-> index, id |-> id, name |-> name, args |-> args]>>]

Chunks1 ==
    {TextChunk(<<"a">>), TextChunk(<<"b">>), TextChunk(<<>>)}
    \cup {ToolChunk(<<>>, 0, "call_0", n, <<"{">>) : n \in ToolNames}
    \cup {ToolChunk(<<>>, 0, "", "", <<"}">>)}
    \cup {ToolChunk(<<"c">>, 1, "call_1", "list_documents",
                     <<"{", "_clientContext", "m", "}">>)}

\* chunks of the synthesis stream: chunk.content is a string, or it is something else
\* (a list of content blocks) and the chunk carries a tool call request
Chunks2 == {[isString |-> TRUE, content |-> <<"s">>, tool_call_chunks |-> <<>>],
            [isString |-> FALSE, content |-> <<"n">>,
             tool_call_chunks |-> <<[index |-> 0, id |-> "call_9",
                                     name |-> "list_documents", args |-> <<"{", "}">>]>>]}

\* The provider streams the calls of one message in index order: the first
\* fragment of a call carries its id and name, the later ones only more of its
\* argument string, and nothing follows the closing brace.
Started(accumulated, index) ==
    \E k \in DOMAIN accumulated.tool_call_chunks :
        accumulated.tool_call_chunks[k].index = index

OpenArgs(accumulated, index) ==
    \E k \in DOMAIN accumulated.tool_call_chunks :
        /\ accumulated.tool_call_chunks[k].index = index
        /\ accumulated.tool_call_chunks[k].args[Len(accumulated.tool_call_chunks[k].args)] # "}"

StreamsNext(accumulated, chunk) ==
    \A k \in DOMAIN chunk.tool_call_chunks :
        LET f == chunk.tool_call_chunks[k]
        IN IF f.name # ""
           THEN /\ ~Started(accumulated, f.index)
                /\ f.index = 0 \/ Started(accumulated, f.index - 1)
           ELSE OpenArgs(accumulated, f.index)

\* a chunk without text yields the argument text of its first fragment
extractContentOrArgs(chunk) ==
    IF chunk.content # <<>> THEN chunk.content
    ELSE IF chunk.tool_call_chunks # <<>> THEN chunk.tool_call_chunks[1].args
    ELSE <<>>

\* extractChunkContent: chunk.content when truthy, else ''
extractChunkContent(chunk) == chunk.content

\* merge of one tool_call_chunk into the accumulated list: a fragment whose index
\* is already present is concatenated field by field, a new index is appended
\* a merge that drops a fragment repeating the end of the accumulated arguments
RECURSIVE MergeFragmentDeduplicating(_, _)
MergeFragmentDeduplicating(list, f) ==
    IF list = <<>> THEN <<f>>
    ELSE IF Head(list).index = f.index
         THEN LET args == Head(list).args
                  n == Len(args)
                  k == Len(f.args)
                  repeated == k > 0 /\ k <= n /\ SubSeq(args, n - k + 1, n) = f.args
              IN <<[index |-> f.index,
                    id |-> Head(list).id \o f.id,
                    name |-> Head(list).name \o f.name,
                    args |-> IF repeated THEN args ELSE args \o f.args]>> \o Tail(list)
         ELSE <<Head(list)>> \o MergeFragmentDeduplicating(Tail(list), f)

RECURSIVE MergeFragment(_, _)
MergeFragment(list, f) ==
    IF list = <<>> THEN <<f>>
    ELSE IF Head(list).index = f.index
         THEN <<[index |-> f.index,
                 id |-> Head(list).id \o f.id,
                 name |-> Head(list).name \o f.name,
                 args |-> Head(list).args \o f.args]>> \o Tail(list)
         ELSE <<Head(list)>> \o MergeFragment(Tail(list), f)

RECURSIVE MergeFragments(_, _)
MergeFragments(list, fs) ==
    IF fs = <<>> THEN list ELSE MergeFragments(MergeFragment(list, Head(fs)), Tail(fs))

NoAccumulated == [defined |-> FALSE, content |-> <<>>, tool_call_chunks |-> <<>>]

\* accumulated = accumulated ? accumulated.concat(chunk) : chunk
Concat(accumulated, chunk) ==
    IF ~accumulated.defined
    THEN [defined |-> TRUE, content |-> chunk.content,
          tool_call_chunks |-> MergeFragments(<<>>, chunk.tool_call_chunks)]
    ELSE [defined |-> TRUE, content |-> accumulated.content \o chunk.content,
          tool_call_chunks |-> MergeFragments(accumulated.tool_call_chunks,
                                              chunk.tool_call_chunks)]

\* the argument string of an accumulated chunk parses (as partial JSON) to an object
ParsesToObject(args) == args = <<>> \/ Head(args) = "{"

\* accumulated.tool_calls: the accumulated chunks whose arguments parse
RECURSIVE ToolCallsOf(_)
ToolCallsOf(tccs) ==
    IF tccs = <<>> THEN <<>>
    ELSE (IF ParsesToObject(Head(tccs).args)
          THEN <<[id |-> Head(tccs).id, name |-> Head(tccs).name, args |-> Head(tccs).args]>>
          ELSE <<>>) \o ToolCallsOf(Tail(tccs))

tool_calls(accumulated) ==
    IF accumulated.defined THEN ToolCallsOf(accumulated.tool_call_chunks) ELSE <<>>

\* the tool_executing event naming only the tools that are registered
RegisteredNames(calls) ==
    LET reg == SelectSeq(calls, LAMBDA c : c.name \in RegisteredTools)
    IN [k \in 1..Len(reg) |-> reg[k].name]

Names(calls) == [k \in 1..Len(calls) |-> calls[k].name]

NoTurn ==
    [validation |-> validateChatRequest([message |-> [isString |-> FALSE, text |-> <<>>],
                                         sessionId |-> Null, context |-> Null]),
     status |-> 0,              \* HTTP status once the response has started
     events |-> <<>>,           \* the events written to res, in order
     ended |-> FALSE,           \* res.end() has been called
     writesAfterEnd |-> 0,      \* writes attempted after res.end()
     chatHistory |-> 0,         \* reference to the array getMessages returned
     before |-> <<>>,           \* the session's messages when the turn started
     stream1 |-> <<>>,          \* chunks the first-pass stream has delivered
     stream2 |-> <<>>,          \* chunks the synthesis stream has delivered
     accumulated |-> NoAccumulated,
     textParts |-> <<>>,
     clientContext |-> Null,
     i |-> 0,                   \* position of executeToolCallsWithSSE in toolCalls
     invoked |-> <<>>,          \* arguments handed to tool.invoke, in call order
     results |-> <<>>,
     allToolResults |-> <<>>,
     synthesisMessages |-> <<>>,
     synthesisParts |-> <<>>,
     savedResponse |-> <<>>,    \* << >> while unassigned, else <<text>>
     retrievals |-> 0,          \* calls of contextRetriever
     queries |-> <<>>,          \* the question each of them was called with
     generations |-> 0,         \* generation streams opened
     \* the stream being consumed when the client's connection closed, and the
     \* number of chunks taken from it by then
     disconnectedAt |-> [stage |-> "none", consumed |-> 0]]

\* sendSSEEvent: one write to res
sendSSEEvent(t, event) ==
    IF t.ended THEN [t EXCEPT !.writesAfterEnd = @ + 1]
    ELSE [t EXCEPT !.events = Append(@, event)]

Event(type) == [type |-> type]
TokenEvent(content) == [type |-> "token", content |-> content]

\* the catch block without its res.end()
CatchWithoutEnd(p, t, message) ==
    /\ turn' = [turn EXCEPT ![p] =
                  sendSSEEvent(t, [type |-> "error", message |-> message])]
    /\ pc' = [pc EXCEPT ![p] = "finished"]
    /\ loc' = [loc EXCEPT ![p] = NoLoc]

\* the catch block of the route: one error event, res.end()
Catch(p, t, message) ==
    /\ turn' = [turn EXCEPT ![p] =
                  [sendSSEEvent(t, [type |-> "error", message |-> message])
                     EXCEPT !.ended = TRUE]]
    /\ pc' = [pc EXCEPT ![p] = "finished"]
    /\ loc' = [loc EXCEPT ![p] = NoLoc]

\* a route that calls setSessionContext with whatever validation returned, the null
\* of a request without a context included
TurnStartAlwaysSets(p) ==
    /\ pc[p] = "idle"
    /\ \E req \in Requests :
         LET v == validateChatRequest(req)
         IN IF ~v.isValid
            THEN /\ turn' = [turn EXCEPT ![p].validation = v, ![p].status = 400,
                                         ![p].ended = TRUE]
                 /\ pc' = [pc EXCEPT ![p] = "rejected"]
                 /\ UNCHANGED <<cm, loc>>
            ELSE /\ CanAlloc(cm)
                 /\ LET S1 == setSessionContext(cm, v.sessionId, v.context, now)
                        S2 == getOrCreateSession(S1, v.sessionId, now)
                        t1 == [turn[p] EXCEPT !.validation = v, !.status = 200,
                                              !.before = IF Has(cm, v.sessionId)
                                                         THEN Messages(cm, v.sessionId)
                                                         ELSE <<>>]
                    IN /\ cm' = S2
                       /\ turn' = [turn EXCEPT ![p] =
                             sendSSEEvent(t1, [type |-> "session", sessionId |-> v.sessionId])]
                       /\ loc' = [loc EXCEPT ![p] =
                             [NoLoc EXCEPT !.sid = v.sessionId,
                                           !.messages = S2.objs[S2.sessions[v.sessionId]].history,
                                           !.retpc = "addUserMessage"]]
                       /\ pc' = [pc EXCEPT ![p] = "getMessagesReturn"]
    /\ UNCHANGED <<now, ret, log, nAdds>>

\* request arrives: validation, setSessionContext, the session event, and
\* getMessages up to its await
TurnStart(p) ==
    /\ pc[p] = "idle"
    /\ \E req \in Requests :
         LET v == validateChatRequest(req)
         IN IF ~v.isValid
            THEN /\ turn' = [turn EXCEPT ![p].validation = v, ![p].status = 400,
                                         ![p].ended = TRUE]
                 /\ pc' = [pc EXCEPT ![p] = "rejected"]
                 /\ UNCHANGED <<cm, loc>>
            ELSE /\ CanAlloc(cm)
                 /\ LET S1 == IF v.context # Null
                              THEN setSessionContext(cm, v.sessionId, v.context, now)
                              ELSE cm
                        S2 == getOrCreateSession(S1, v.sessionId, now)
                        t1 == [turn[p] EXCEPT !.validation = v, !.status = 200,
                                              !.before = IF Has(cm, v.sessionId)
                                                         THEN Messages(cm, v.sessionId)
                                                         ELSE <<>>]
                    IN /\ cm' = S2
                       /\ turn' = [turn EXCEPT ![p] =
                             sendSSEEvent(t1, [type |-> "session", sessionId |-> v.sessionId])]
                       /\ loc' = [loc EXCEPT ![p] =
                             [NoLoc EXCEPT !.sid = v.sessionId,
                                           !.messages = S2.objs[S2.sessions[v.sessionId]].history,
                                           !.retpc = "addUserMessage"]]
                       /\ pc' = [pc EXCEPT ![p] = "getMessagesReturn"]
    /\ UNCHANGED <<now, ret, log, nAdds>>

\* chatHistory is bound to the array getMessages returned; addMessage(user) runs
\* up to its first await
AddUserMessage(p) ==
    /\ pc[p] = "getMessagesReturn"
    /\ loc[p].retpc = "addUserMessage"
    /\ turn' = [turn EXCEPT ![p].chatHistory = loc[p].messages]
    /\ AddMessageStart(p, turn[p].validation.sessionId, turn[p].validation.message,
                       TRUE, "getChain")
    /\ UNCHANGED <<now, ret, nAdds>>

\* the store steps of the turn's own addMessage calls
TurnWindowing(p) ==
    /\ applyMessageWindowing(p)
    /\ UNCHANGED turn

\* await ragService.getChain(); ragChain.stream() starts with the retrieval step
GetChain(p) ==
    /\ pc[p] = "getChain"
    /\ \/ /\ pc' = [pc EXCEPT ![p] = "retrieval"]
          /\ UNCHANGED <<turn, loc>>
       \/ Catch(p, turn[p], "initialization failed")
    /\ UNCHANGED <<cm, now, ret, log, nAdds>>

Retrieval(p) ==
    /\ pc[p] = "retrieval"
    /\ LET t == [turn[p] EXCEPT !.retrievals = @ + 1,
                                !.queries = Append(@, turn[p].validation.message)]
       IN \/ /\ turn' = [turn EXCEPT ![p] = [t EXCEPT !.generations = @ + 1]]
             /\ pc' = [pc EXCEPT ![p] = "firstPass"]
             /\ loc' = loc
          \/ Catch(p, t, "retrieval failed")
    /\ UNCHANGED <<cm, now, ret, log, nAdds>>

\* one iteration of `for await (const chunk of stream)`
FirstPassChunk(p) ==
    /\ pc[p] = "firstPass"
    /\ Len(turn[p].stream1) < MaxChunks
    /\ \E chunk \in Chunks1 :
         LET t == turn[p]
             textContent == extractChunkContent(chunk)
             t1 == [t EXCEPT !.stream1 = Append(@, chunk),
                             !.accumulated = Concat(@, chunk)]
         IN /\ StreamsNext(t.accumulated, chunk)
            /\ turn' = [turn EXCEPT ![p] =
                          IF textContent # <<>>
                          THEN sendSSEEvent([t1 EXCEPT !.textParts = Append(@, textContent)],
                                            TokenEvent(textContent))
                          ELSE t1]
    /\ UNCHANGED <<cm, now, pc, loc, ret, log, nAdds>>

GenerationFails(p) ==
    /\ pc[p] \in {"firstPass", "synthesis"}
    /\ Catch(p, turn[p], "generation failed")
    /\ UNCHANGED <<cm, now, ret, log, nAdds>>

\* what tool.invoke may do for a registered tool: return a string or throw
ToolOutputs == {"docs"}
ToolFailure == "tool failed"

NotFound(name) == <<"Tool '", name, "' not found">>

\* `break` in place of `continue`: the first unregistered tool ends the loop
RECURSIVE StopAtUnregistered(_, _)
StopAtUnregistered(t, toolCalls) ==
    IF t.i > Len(toolCalls) \/ toolCalls[t.i].name \in RegisteredTools
    THEN t
    ELSE [sendSSEEvent(t, [type |-> "tool_error", tool |-> toolCalls[t.i].name,
                           error |-> <<"Tool '", toolCalls[t.i].name, "' not found">>])
            EXCEPT !.i = Len(toolCalls) + 1]

\* executeToolCallsWithSSE from call t.i up to the next await: every call whose
\* tool is not registered gets a tool_error event and the loop continues
RECURSIVE SkipUnregistered(_, _)
SkipUnregistered(t, toolCalls) ==
    IF t.i > Len(toolCalls) \/ toolCalls[t.i].name \in RegisteredTools
    THEN t
    ELSE SkipUnregistered(
            [sendSSEEvent(t, [type |-> "tool_error", tool |-> toolCalls[t.i].name,
                              error |-> NotFound(toolCalls[t.i].name)])
               EXCEPT !.i = @ + 1],
            toolCalls)

\* where the executor is parked after SkipUnregistered
ExecutorPc(t, toolCalls) ==
    IF t.i > Len(toolCalls) THEN "toolsReturned" ELSE "toolInvoke"

\* a success path that sets savedResponse and goes on to done without addMessage
PersistNothing(p, t, text) ==
    /\ turn' = [turn EXCEPT ![p] = [t EXCEPT !.savedResponse = <<text>>]]
    /\ pc' = [pc EXCEPT ![p] = "sendDone"]
    /\ UNCHANGED <<cm, loc, log>>

\* the route from line 91 when allToolResults is empty, and from line 115:
\* savedResponse is fixed and addMessage(assistant) runs up to its first await
Persist(p, t, text) ==
    /\ turn' = [turn EXCEPT ![p] = [t EXCEPT !.savedResponse = <<text>>]]
    /\ AddMessageStart(p, t.validation.sessionId, text, FALSE, "sendDone")

\* the first-pass stream ends
FirstPassEnd(p) ==
    /\ pc[p] = "firstPass"
    /\ LET t == turn[p]
           toolCalls == tool_calls(t.accumulated)
       IN IF Len(toolCalls) > 0
          THEN LET t1 == sendSSEEvent(t, [type |-> "tool_executing",
                                          tools |-> Names(toolCalls)])
                   t2 == [t1 EXCEPT !.clientContext =
                                       getSessionContext(cm, t.validation.sessionId),
                                    !.i = 1]
                   t3 == SkipUnregistered(t2, toolCalls)
               IN /\ turn' = [turn EXCEPT ![p] = t3]
                  /\ pc' = [pc EXCEPT ![p] = ExecutorPc(t3, toolCalls)]
                  /\ UNCHANGED <<cm, loc, log>>
          ELSE Persist(p, t, Join(t.textParts))
    /\ UNCHANGED <<now, ret, nAdds>>

\* toolCall.args: the object the accumulated argument string parses to.  The string
\* is a brace, then keys each followed by its value, then (once complete) a brace.
ArgsObject(args) ==
    LET body == SelectSeq(args, LAMBDA x : x \notin {"{", "}"})
        keys == {body[k] : k \in {j \in DOMAIN body : j % 2 = 1}}
    IN [key \in keys |->
          body[(CHOOSE k \in DOMAIN body :
                   /\ k % 2 = 1 /\ body[k] = key
                   /\ \A j \in DOMAIN body : (j % 2 = 1 /\ body[j] = key) => j <= k) + 1]]

\* { _clientContext: clientContext, ...toolCall.args }: the model's arguments last
argsWithContextFirst(args, clientContext) ==
    [key \in DOMAIN args \cup {"_clientContext"} |->
        IF key \in DOMAIN args THEN args[key] ELSE clientContext]

\* { ...toolCall.args, _clientContext: clientContext }
argsWithContext(args, clientContext) ==
    [key \in DOMAIN args \cup {"_clientContext"} |->
        IF key = "_clientContext" THEN clientContext ELSE args[key]]

\* `await tool.invoke(argsWithContext)` settles: tool_result and a result entry,
\* or the catch block's tool_error; then the loop runs on to the next await
ToolInvoke(p) ==
    /\ pc[p] = "toolInvoke"
    /\ LET t == turn[p]
           toolCalls == tool_calls(t.accumulated)
           toolCall == toolCalls[t.i]
           t0 == [t EXCEPT !.invoked =
                     Append(@, [name |-> toolCall.name,
                                args |-> toolCall.args,
                                input |-> argsWithContext(ArgsObject(toolCall.args),
                                                          t.clientContext)])]
       IN \E ok \in BOOLEAN, toolResult \in ToolOutputs :
            LET t1 == IF ok
                      THEN [sendSSEEvent(t0, [type |-> "tool_result",
                                              tool |-> toolCall.name,
                                              result |-> toolResult])
                              EXCEPT !.results = Append(@, [name |-> toolCall.name,
                                                            result |-> toolResult])]
                      ELSE sendSSEEvent(t0, [type |-> "tool_error",
                                             tool |-> toolCall.name,
                                             error |-> <<ToolFailure>>])
                t2 == SkipUnregistered([t1 EXCEPT !.i = @ + 1], toolCalls)
            IN /\ turn' = [turn EXCEPT ![p] = t2]
               /\ pc' = [pc EXCEPT ![p] = ExecutorPc(t2, toolCalls)]
    /\ UNCHANGED <<cm, now, loc, ret, log, nAdds>>

\* executeToolCallsWithSSE has returned: allToolResults.push(...results), then
\* the synthesis branch calls contextRetriever, the other branch persists
ToolsReturned(p) ==
    /\ pc[p] = "toolsReturned"
    /\ LET t == [turn[p] EXCEPT !.allToolResults = turn[p].results]
       IN IF Len(t.allToolResults) > 0
          THEN /\ turn' = [turn EXCEPT ![p] = t]
               /\ pc' = [pc EXCEPT ![p] = "synthesisRetrieval"]
               /\ UNCHANGED <<cm, loc, log>>
          ELSE Persist(p, t, Join(t.textParts))
    /\ UNCHANGED <<now, ret, nAdds>>

\* buildToolMessages(toolResults, toolCalls): result idx is keyed by toolCalls[idx].id
buildToolMessages(toolResults, toolCalls) ==
    [idx \in 1..Len(toolResults) |->
        [type |-> "tool",
         content |-> toolResults[idx].result,
         tool_call_id |-> IF idx <= Len(toolCalls) THEN toolCalls[idx].id ELSE "call_idx",
         name |-> toolResults[idx].name]]

\* a synthesis branch that reuses the passages of the first pass: contextRetriever is
\* not called again
SynthesisReusesContext(p) ==
    /\ pc[p] = "synthesisRetrieval"
    /\ LET t == turn[p]
           toolCalls == tool_calls(t.accumulated)
       IN /\ turn' = [turn EXCEPT ![p] =
                [t EXCEPT !.generations = @ + 1,
                          !.synthesisMessages =
                             <<[type |-> "system"]>>
                             \o <<[type |-> "human", content |-> t.validation.message],
                                  [type |-> "ai", tool_calls |-> toolCalls]>>
                             \o buildToolMessages(t.allToolResults, toolCalls)]]
          /\ pc' = [pc EXCEPT ![p] = "synthesis"]
          /\ loc' = loc
    /\ UNCHANGED <<cm, now, ret, log, nAdds>>

\* `await contextRetriever(message)` settles; synthesisMessages is built and
\* llm.stream(synthesisMessages) is called
SynthesisRetrieval(p) ==
    /\ pc[p] = "synthesisRetrieval"
    /\ LET t == [turn[p] EXCEPT !.retrievals = @ + 1,
                                !.queries = Append(@, turn[p].validation.message)]
           toolCalls == tool_calls(t.accumulated)
       IN \/ /\ turn' = [turn EXCEPT ![p] =
                   [t EXCEPT !.generations = @ + 1,
                             !.synthesisMessages =
                                <<[type |-> "system"]>>
                                \o [k \in 1..Len(cm.arrays[t.chatHistory]) |->
                                      [type |-> "history",
                                       message |-> cm.arrays[t.chatHistory][k]]]
                                \o <<[type |-> "human", content |-> t.validation.message],
                                     [type |-> "ai", tool_calls |-> toolCalls]>>
                                \o buildToolMessages(t.allToolResults, toolCalls)]]
             /\ pc' = [pc EXCEPT ![p] = "synthesis"]
             /\ loc' = loc
          \/ Catch(p, t, "retrieval failed")
    /\ UNCHANGED <<cm, now, ret, log, nAdds>>

\* one iteration of `for await (const chunk of synthesisStream)`
SynthesisChunk(p) ==
    /\ pc[p] = "synthesis"
    /\ Len(turn[p].stream2) < MaxSynthChunks
    /\ \E chunk \in Chunks2 :
         LET t == [turn[p] EXCEPT !.stream2 = Append(@, chunk)]
             text == IF chunk.isString THEN chunk.content ELSE <<>>
         IN turn' = [turn EXCEPT ![p] =
                       IF text # <<>>
                       THEN sendSSEEvent([t EXCEPT !.synthesisParts = Append(@, text)],
                                         TokenEvent(text))
                       ELSE t]
    /\ UNCHANGED <<cm, now, pc, loc, ret, log, nAdds>>

\* a synthesis end that looks for a tool call request in the synthesis stream and,
\* finding one, announces the tools again and starts another generation
SynthesisEndInspects(p) ==
    /\ pc[p] = "synthesis"
    /\ IF \E k \in DOMAIN turn[p].stream2 : turn[p].stream2[k].tool_call_chunks # <<>>
       THEN /\ turn' = [turn EXCEPT ![p] =
                          sendSSEEvent(turn[p], [type |-> "tool_executing",
                                                 tools |-> <<"list_documents">>])]
            /\ pc' = [pc EXCEPT ![p] = "synthesisRetrieval"]
            /\ UNCHANGED <<cm, loc, log>>
       ELSE Persist(p, turn[p], Join(turn[p].synthesisParts))
    /\ UNCHANGED <<now, ret, nAdds>>

\* the synthesis stream ends: savedResponse = synthesisParts.join('')
SynthesisEnd(p) ==
    /\ pc[p] = "synthesis"
    /\ Persist(p, turn[p], Join(turn[p].synthesisParts))
    /\ UNCHANGED <<now, ret, nAdds>>

\* the success path with the done event written after res.end()
SendDoneAfterEnd(p) ==
    /\ pc[p] = "sendDone"
    /\ CanAlloc(cm)
    /\ LET sid == turn[p].validation.sessionId
           S1 == getOrCreateSession(cm, sid, now)
       IN /\ turn' = [turn EXCEPT ![p] =
                        sendSSEEvent([turn[p] EXCEPT !.ended = TRUE], [type |-> "done"])]
          /\ cm' = S1
          /\ loc' = [loc EXCEPT ![p] =
                       [NoLoc EXCEPT !.sid = sid,
                                     !.messages = S1.objs[S1.sessions[sid]].history,
                                     !.retpc = "finished"]]
          /\ pc' = [pc EXCEPT ![p] = "getMessagesReturn"]
    /\ UNCHANGED <<now, ret, log, nAdds>>

\* addMessage(assistant) has returned: the done event, res.end(), and the
\* getMessages call of the closing log line up to its await
SendDone(p) ==
    /\ pc[p] = "sendDone"
    /\ Has(cm, turn[p].validation.sessionId) \/ CanAlloc(cm)
    /\ LET sid == turn[p].validation.sessionId
           S1 == getOrCreateSession(cm, sid, now)
       IN /\ turn' = [turn EXCEPT ![p] =
                        [sendSSEEvent(turn[p], Event("done")) EXCEPT !.ended = TRUE]]
          /\ cm' = S1
          /\ loc' = [loc EXCEPT ![p] =
                       [NoLoc EXCEPT !.sid = sid,
                                     !.messages = S1.objs[S1.sessions[sid]].history,
                                     !.retpc = "finished"]]
          /\ pc' = [pc EXCEPT ![p] = "getMessagesReturn"]
    /\ UNCHANGED <<now, ret, log, nAdds>>

\* the closing log line has its message count; the handler returns
ClosingLog(p) ==
    /\ pc[p] = "getMessagesReturn"
    /\ loc[p].retpc = "finished"
    /\ pc' = [pc EXCEPT ![p] = "finished"]
    /\ loc' = [loc EXCEPT ![p] = NoLoc]
    /\ UNCHANGED <<cm, now, ret, log, nAdds, turn>>

Turn(p) ==
    \/ TurnStart(p)
    \/ AddUserMessage(p)
    \/ TurnWindowing(p)
    \/ GetChain(p)
    \/ Retrieval(p)
    \/ FirstPassChunk(p)
    \/ GenerationFails(p)
    \/ FirstPassEnd(p)
    \/ ToolInvoke(p)
    \/ ToolsReturned(p)
    \/ SynthesisRetrieval(p)
    \/ SynthesisChunk(p)
    \/ SynthesisEnd(p)
    \/ SendDone(p)
    \/ ClosingLog(p)

\* ------------------------------------------------------------------- wire text
\* Text on the wire is a sequence of pieces: the line feed, the characters JSON escapes,
\* the punctuation of JSON, and words (runs of characters that need no escape).  A read
\* of the upstream body may end between any two pieces.
NL == "\n"
QUOTE == "\""
BSLASH == "\\"
Words == {"a", "n", "s1", "token", "session", "tool_executing", "tool_result",
          "tool_error", "error", "done", "ping", "list_documents", "docs", "boom",
          "Backend error: ", "500", "204", "fetch failed", "terminated", "Unknown error"}
Keys == {"type", "content", "sessionId", "tools", "tool", "result", "error", "message"}
\* a property name with its quotes and colon, one piece
KeyPiece(k) ==
    CASE k = "type" -> "\"type\":"
      [] k = "content" -> "\"content\":"
      [] k = "sessionId" -> "\"sessionId\":"
      [] k = "tools" -> "\"tools\":"
      [] k = "tool" -> "\"tool\":"
      [] k = "result" -> "\"result\":"
      [] k = "error" -> "\"error\":"
      [] k = "message" -> "\"message\":"
KeyPieces == {KeyPiece(k) : k \in Keys}
KeyOf(piece) == CHOOSE k \in Keys : KeyPiece(k) = piece

\* the pieces a string may hold unescaped
PlainPieces == Words \cup Keys \cup {":", ",", "[", "]", "{", "}", " "}

\* JSON values: strings, arrays, objects (fields in insertion order) and null
Str(s) == [k |-> "str", s |-> s, items |-> <<>>]
Arr(items) == [k |-> "arr", s |-> <<>>, items |-> items]
Obj(fields) == [k |-> "obj", s |-> <<>>, items |-> fields]
JsonNull == [k |-> "null", s |-> <<>>, items |-> <<>>]
Undefined == [k |-> "undefined", s |-> <<>>, items |-> <<>>]
Fld(key, val) == [key |-> key, val |-> val]

\* obj[key] of a parsed value; undefined when the value has no such property
Prop(v, key) ==
    IF v.k = "obj" /\ \E i \in 1..Len(v.items) : v.items[i].key = key
    THEN v.items[CHOOSE i \in 1..Len(v.items) :
                     /\ v.items[i].key = key
                     /\ \A j \in (i + 1)..Len(v.items) : v.items[j].key # key].val
    ELSE Undefined

\* a stringify that writes every character of a string as it is
WriteRaw(c) == <<c>>

\* a stringify that escapes quote and backslash and writes a line feed as it is
EscapeQuotesOnly(c) ==
    IF c \in {QUOTE, BSLASH} THEN <<BSLASH, c>> ELSE <<c>>

\* JSON.stringify of a string: quote, line feed and backslash are escaped
Escape(c) ==
    IF c = NL THEN <<BSLASH, "n">>
    ELSE IF c \in {QUOTE, BSLASH} THEN <<BSLASH, c>>
    ELSE <<c>>

RECURSIVE EscapeAll(_)
EscapeAll(s) == IF s = <<>> THEN <<>> ELSE Escape(Head(s)) \o EscapeAll(Tail(s))

RECURSIVE Stringify(_)
RECURSIVE StringifyItems(_, _)
\* the members of an array or object, comma separated; a property whose value is
\* undefined is left out of an object
StringifyItems(items, isObj) ==
    IF items = <<>> THEN <<>>
    ELSE LET h == Head(items)
             rest == StringifyItems(Tail(items), isObj)
             sep == IF rest = <<>> THEN <<>> ELSE <<",">>
         IN IF isObj
            THEN IF h.val.k = "undefined" THEN rest
                 ELSE <<KeyPiece(h.key)>> \o Stringify(h.val) \o sep \o rest
            ELSE Stringify(h) \o sep \o rest

Stringify(v) ==
    IF v.k = "str" THEN <<QUOTE>> \o EscapeAll(v.s) \o <<QUOTE>>
    ELSE IF v.k = "arr" THEN <<"[">> \o StringifyItems(v.items, FALSE) \o <<"]">>
    ELSE IF v.k = "obj" THEN <<"{">> \o StringifyItems(v.items, TRUE) \o <<"}">>
    ELSE IF v.k = "null" THEN <<"null">>
    ELSE <<"undefined">>

\* JSON.parse: the value read from position i on and the position after it, or a failure
ParseFail == [ok |-> FALSE, val |-> JsonNull, next |-> 0]
Parsed(v, n) == [ok |-> TRUE, val |-> v, next |-> n]

RECURSIVE ParseStringBody(_, _, _)
ParseStringBody(a, i, acc) ==
    IF i > Len(a) THEN ParseFail
    ELSE IF a[i] = QUOTE THEN Parsed(Str(acc), i + 1)
    ELSE IF a[i] = BSLASH
         THEN IF i + 1 > Len(a) THEN ParseFail
              ELSE IF a[i + 1] = "n" THEN ParseStringBody(a, i + 2, Append(acc, NL))
              ELSE IF a[i + 1] \in {QUOTE, BSLASH}
                   THEN ParseStringBody(a, i + 2, Append(acc, a[i + 1]))
              ELSE ParseFail
    ELSE IF a[i] \in PlainPieces
         THEN ParseStringBody(a, i + 1, Append(acc, a[i]))
    ELSE ParseFail

RECURSIVE ParseValue(_, _)
RECURSIVE ParseElements(_, _, _)
RECURSIVE ParseMembers(_, _, _)

\* the elements of an array after "[" or after a comma
ParseElements(a, i, acc) ==
    LET e == ParseValue(a, i)
    IN IF ~e.ok \/ e.next > Len(a) THEN ParseFail
       ELSE IF a[e.next] = "]" THEN Parsed(Arr(Append(acc, e.val)), e.next + 1)
       ELSE IF a[e.next] = "," THEN ParseElements(a, e.next + 1, Append(acc, e.val))
       ELSE ParseFail

\* the members of an object after "{" or after a comma
ParseMembers(a, i, acc) ==
    IF i > Len(a) \/ a[i] \notin KeyPieces
    THEN ParseFail
    ELSE LET m == ParseValue(a, i + 1)
             fields == Append(acc, Fld(KeyOf(a[i]), m.val))
         IN IF ~m.ok \/ m.next > Len(a) THEN ParseFail
            ELSE IF a[m.next] = "}" THEN Parsed(Obj(fields), m.next + 1)
            ELSE IF a[m.next] = "," THEN ParseMembers(a, m.next + 1, fields)
            ELSE ParseFail

ParseValue(a, i) ==
    IF i > Len(a) THEN ParseFail
    ELSE IF a[i] = QUOTE THEN ParseStringBody(a, i + 1, <<>>)
    ELSE IF a[i] = "null" THEN Parsed(JsonNull, i + 1)
    ELSE IF a[i] = "["
         THEN IF i + 1 <= Len(a) /\ a[i + 1] = "]" THEN Parsed(Arr(<<>>), i + 2)
              ELSE ParseElements(a, i + 1, <<>>)
    ELSE IF a[i] = "{"
         THEN IF i + 1 <= Len(a) /\ a[i + 1] = "}" THEN Parsed(Obj(<<>>), i + 2)
              ELSE ParseMembers(a, i + 1, <<>>)
    ELSE ParseFail

\* JSON.parse(text): the whole text must be one value
JsonParse(a) ==
    LET r == ParseValue(a, 1)
    IN IF r.ok /\ r.next = Len(a) + 1 THEN r ELSE ParseFail

\* ---------------------------------------------------------------- the two stages
\* sendSSEEvent: the payload is {type, ...data}, framed as one data line and a blank line
SSEPayload(type, data) == Obj(<<Fld("type", Str(<<type>>))>> \o data)
SSEFrame(event) == <<"data:", " ">> \o Stringify(event) \o <<NL, NL>>

\* the events the orchestrator writes, as payloads
SessionPayload == SSEPayload("session", <<Fld("sessionId", Str(<<"s1">>))>>)
TokenPayload(content) == SSEPayload("token", <<Fld("content", Str(content))>>)
ToolExecutingPayload ==
    SSEPayload("tool_executing", <<Fld("tools", Arr(<<Str(<<"list_documents">>)>>))>>)
ToolResultPayload ==
    SSEPayload("tool_result", <<Fld("tool", Str(<<"list_documents">>)),
                                Fld("result", Str(<<"docs">>))>>)
ToolErrorPayload ==
    SSEPayload("tool_error", <<Fld("tool", Str(<<"list_documents">>)),
                               Fld("error", Str(<<"boom">>))>>)
ErrorPayload == SSEPayload("error", <<Fld("message", Str(<<"boom">>))>>)
DonePayload == SSEPayload("done", <<>>)

\* token texts: a plain one, and one made of the characters JSON has to escape
TokenTexts == {<<"a">>, <<NL, QUOTE, BSLASH, "n">>}

StageOneEvents ==
    {SessionPayload, ToolExecutingPayload, ToolResultPayload, ToolErrorPayload,
     ErrorPayload, DonePayload}
    \cup {TokenPayload(c) : c \in TokenTexts}

TypeAt(es, i) == Prop(es[i], "type").s[1]

\* the order in which the chat route writes: the session event first; at most one
\* tool_executing, the tool outcomes after it; nothing after done or error
WellFormed(es) ==
    /\ es # <<>> => TypeAt(es, 1) = "session"
    /\ \A i \in 2..Len(es) : TypeAt(es, i) # "session"
    /\ \A i \in 1..(Len(es) - 1) : TypeAt(es, i) \notin {"done", "error"}
    /\ \A i, j \in 1..Len(es) :
           TypeAt(es, i) = "tool_executing" /\ TypeAt(es, j) = "tool_executing" => i = j
    /\ \A i \in 1..Len(es) :
           TypeAt(es, i) \in {"tool_result", "tool_error"}
             => \E j \in 1..(i - 1) : TypeAt(es, j) = "tool_executing"

\* the event sequences a response carries, cut short or complete
StageOneSeqs ==
    {es \in UNION {[1..n -> StageOneEvents] : n \in 0..MaxItems} : WellFormed(es)}

\* what else may arrive on the upstream body: a line without the data prefix, an
\* event of a type the bridge does not know, and a data line whose line feed is missing
OtherItems ==
    {<<"event:", " ", "ping", NL>>,
     SSEFrame(SSEPayload("ping", <<>>)),
     <<"data:", " ">> \o Stringify(DonePayload)}

RECURSIVE Flat(_)
Flat(ss) == IF ss = <<>> THEN <<>> ELSE Head(ss) \o Flat(Tail(ss))

Frames(es) == [i \in 1..Len(es) |-> SSEFrame(es[i])]

\* an upstream body: the frames of a response, or of a shorter one (the other item
\* counts for two) with one other item put in before its frame number `at`
Bodies ==
    {[events |-> es, at |-> 0, other |-> <<>>] : es \in StageOneSeqs}
    \cup UNION {{[events |-> es, at |-> i, other |-> o] :
                   i \in 1..(Len(es) + 1), o \in OtherItems} :
                 es \in {e \in StageOneSeqs : Len(e) + 2 <= MaxItems}}
BodyText(body) ==
    IF body.at = 0 THEN Flat(Frames(body.events))
    ELSE Flat(Frames(SubSeq(body.events, 1, body.at - 1))) \o body.other
         \o Flat(Frames(SubSeq(body.events, body.at, Len(body.events))))

\* ---- the protocol bridge: POST of src/client/src/app/api/chat/route.ts
FinishPayload ==
    "{\"finishReason\":\"stop\",\"usage\":{\"promptTokens\":0,\"completionTokens\":0}}"
FinishLine == <<"d:", FinishPayload, NL>>
TextPart(content) == <<"0:">> \o Stringify(content) \o <<NL>>
\* a data part that carries the object itself, not an array holding it
AnnotationUnwrapped(obj) == <<"2:">> \o Stringify(obj) \o <<NL>>

Annotation(obj) == <<"2:">> \o Stringify(Arr(<<obj>>)) \o <<NL>>
\* an error part writing the message as it is
ErrorPartUnquoted(msg) == <<"3:">> \o msg \o <<NL>>
ErrorPart(msg) == <<"3:">> \o Stringify(Str(msg)) \o <<NL>>

NoBridge ==
    [pc |-> "idle",
     status |-> 0,        \* HTTP status of the Response the handler returned
     body |-> [events |-> <<>>, at |-> 0, other |-> <<>>],
     text |-> <<>>,       \* the upstream body, as the backend writes it
     pos |-> 0,           \* how much of it the reader has handed over
     buffer |-> <<>>,     \* `buffer`
     out |-> <<>>,        \* the chunks enqueued on the output stream, in order
     closes |-> 0,        \* calls of controller.close()
     ending |-> "none"]   \* how the handler or its stream came to its end

\* buffer.split('\n'): the pieces between line feeds, the last one being what
\* follows the last line feed
RECURSIVE Split(_, _, _, _)
Split(s, i, from, parts) ==
    IF i > Len(s) THEN Append(parts, SubSeq(s, from, Len(s)))
    ELSE IF s[i] = NL THEN Split(s, i + 1, i + 1, Append(parts, SubSeq(s, from, i - 1)))
    ELSE Split(s, i + 1, from, parts)

StartsWithData(line) == Len(line) >= 2 /\ line[1] = "data:" /\ line[2] = " "

\* the switch on event.type: the chunks enqueued for one parsed event
Translate(event) ==
    LET type == Prop(event, "type")
        Is(t) == type = Str(<<t>>)
    IN IF Is("token") THEN <<TextPart(Prop(event, "content"))>>
       ELSE IF Is("tool_executing")
            THEN <<Annotation(Obj(<<Fld("type", Str(<<"tool_executing">>)),
                                    Fld("tools", Prop(event, "tools"))>>))>>
       ELSE IF Is("tool_result")
            THEN <<Annotation(Obj(<<Fld("type", Str(<<"tool_result">>)),
                                    Fld("tool", Prop(event, "tool")),
                                    Fld("result", Prop(event, "result"))>>))>>
       ELSE IF Is("tool_error")
            THEN <<Annotation(Obj(<<Fld("type", Str(<<"tool_error">>)),
                                    Fld("tool", Prop(event, "tool")),
                                    Fld("error", Prop(event, "error"))>>))>>
       ELSE IF Is("session")
            THEN <<Annotation(Obj(<<Fld("type", Str(<<"session">>)),
                                    Fld("sessionId", Prop(event, "sessionId"))>>))>>
       ELSE IF Is("error")
            THEN LET m == Prop(event, "message")
                 IN IF m.k \in {"undefined", "null"}
                    THEN <<ErrorPart(<<"Unknown error">>)>>
                    ELSE <<<<"3:">> \o Stringify(m) \o <<NL>>>>
       ELSE IF Is("done") THEN <<FinishLine>>
       ELSE <<>>

\* a loop that gives up at the first line it cannot translate (the blank line that
\* ends a frame apart): it closes the stream
RECURSIVE ProcessLinesFatal(_, _)
ProcessLinesFatal(lines, b) ==
    IF lines = <<>> THEN b
    ELSE LET line == Head(lines)
             parsed == JsonParse(SubSeq(line, 3, Len(line)))
         IN IF line = <<>> THEN ProcessLinesFatal(Tail(lines), b)
            ELSE IF \/ ~StartsWithData(line) \/ ~parsed.ok \/ parsed.val.k = "null"
                    \/ Translate(parsed.val) = <<>>
                 THEN [b EXCEPT !.closes = @ + 1, !.pc = "closed", !.ending = "upstreamEnded"]
            ELSE IF Prop(parsed.val, "type") = Str(<<"done">>)
                 THEN [b EXCEPT !.out = @ \o Translate(parsed.val),
                                !.closes = @ + 1, !.pc = "closed", !.ending = "done"]
            ELSE ProcessLinesFatal(Tail(lines),
                                   [b EXCEPT !.out = @ \o Translate(parsed.val)])

\* a loop that translates the done event like any other and goes on with the next line
RECURSIVE ProcessLinesNoReturn(_, _)
ProcessLinesNoReturn(lines, b) ==
    IF lines = <<>> THEN b
    ELSE LET line == Head(lines)
             parsed == JsonParse(SubSeq(line, 3, Len(line)))
         IN IF ~StartsWithData(line) \/ ~parsed.ok \/ parsed.val.k = "null"
            THEN ProcessLinesNoReturn(Tail(lines), b)
            ELSE ProcessLinesNoReturn(Tail(lines),
                                      [b EXCEPT !.out = @ \o Translate(parsed.val)])

\* a loop for which the error event ends the stream as the done event does
RECURSIVE ProcessLinesErrorTerminal(_, _)
ProcessLinesErrorTerminal(lines, b) ==
    IF lines = <<>> THEN b
    ELSE LET line == Head(lines)
             parsed == JsonParse(SubSeq(line, 3, Len(line)))
         IN IF ~StartsWithData(line) \/ ~parsed.ok \/ parsed.val.k = "null"
            THEN ProcessLinesErrorTerminal(Tail(lines), b)
            ELSE IF Prop(parsed.val, "type") \in {Str(<<"done">>), Str(<<"error">>)}
                 THEN [b EXCEPT !.out = @ \o Translate(parsed.val),
                                !.closes = @ + 1, !.pc = "closed", !.ending = "done"]
            ELSE ProcessLinesErrorTerminal(Tail(lines),
                                           [b EXCEPT !.out = @ \o Translate(parsed.val)])

\* the body of `for (const line of lines)`: lines that lack the prefix or do not parse
\* are skipped; the done event closes the stream and returns from start()
RECURSIVE ProcessLines(_, _)
ProcessLines(lines, b) ==
    IF lines = <<>> THEN b
    ELSE LET line == Head(lines)
             parsed == JsonParse(SubSeq(line, 3, Len(line)))
         IN IF ~StartsWithData(line) \/ ~parsed.ok \/ parsed.val.k = "null"
            THEN ProcessLines(Tail(lines), b)
            ELSE IF Prop(parsed.val, "type") = Str(<<"done">>)
                 THEN [b EXCEPT !.out = @ \o Translate(parsed.val),
                                !.closes = @ + 1, !.pc = "closed", !.ending = "done"]
            ELSE ProcessLines(Tail(lines),
                              [b EXCEPT !.out = @ \o Translate(parsed.val)])

\* the loop body parsing each chunk on its own, the text left from earlier reads dropped
OnChunkUnbuffered(b, n) ==
    LET chunk == SubSeq(b.text, b.pos + 1, b.pos + n)
        parts == Split(chunk, 1, 1, <<>>)
    IN ProcessLines(SubSeq(parts, 1, Len(parts) - 1),
                    [b EXCEPT !.pos = @ + n, !.buffer = parts[Len(parts)]])

\* one iteration of the read loop on a chunk of n pieces
OnChunk(b, n) ==
    LET chunk == SubSeq(b.text, b.pos + 1, b.pos + n)
        parts == Split(b.buffer \o chunk, 1, 1, <<>>)
    IN ProcessLines(SubSeq(parts, 1, Len(parts) - 1),
                    [b EXCEPT !.pos = @ + n, !.buffer = parts[Len(parts)]])

\* l.17-27: the request carries no message
BridgeRejects ==
    /\ br.pc = "idle"
    /\ br' = [br EXCEPT !.pc = "returned", !.status = 400, !.ending = "noMessage"]

\* err.message of a rejected fetch, one of them with characters JSON has to escape
FetchErrors == {<<"fetch failed">>, <<"a", NL, QUOTE>>}

\* l.29-44: fetch rejects
BridgeFetchThrows ==
    /\ br.pc = "idle"
    /\ \E msg \in FetchErrors :
         br' = [br EXCEPT !.pc = "returned", !.status = 200, !.closes = 1,
                          !.out = <<ErrorPart(msg)>>,
                          !.ending = "fetchThrew"]

\* l.46-54: the backend answers with a status outside 200..299, or without a body
BridgeBackendError ==
    /\ br.pc = "idle"
    /\ \E status \in {"500", "204"} :
         br' = [br EXCEPT !.pc = "returned", !.status = 200, !.closes = 1,
                          !.out = <<ErrorPart(<<"Backend error: ", status>>)>>,
                          !.ending = "backendError"]

\* l.56-62, l.136: the backend answers; the handler returns the streaming Response
BridgeStreams ==
    /\ br.pc = "idle"
    /\ \E body \in Bodies :
         br' = [br EXCEPT !.pc = "reading", !.status = 200, !.body = body,
                          !.text = BodyText(body)]

\* l.68-121: reader.read() hands over the next chunk
BridgeRead ==
    /\ br.pc = "reading"
    /\ \E n \in 1..(Len(br.text) - br.pos) : br' = OnChunk(br, n)

\* the end of the upstream body closing the stream without a finish line
CloseWithoutFinish ==
    /\ br.pc = "reading"
    /\ br.pos = Len(br.text)
    /\ br' = [br EXCEPT !.pc = "closed", !.closes = @ + 1, !.ending = "upstreamEnded"]

\* l.69, l.123-127: the upstream body ends
BridgeUpstreamEnds ==
    /\ br.pc = "reading"
    /\ br.pos = Len(br.text)
    /\ br' = [br EXCEPT !.pc = "closed", !.out = Append(@, FinishLine),
                        !.closes = @ + 1, !.ending = "upstreamEnded"]

\* l.128-132: reader.read() rejects
BridgeReadThrows ==
    /\ br.pc = "reading"
    /\ br' = [br EXCEPT !.pc = "closed", !.out = Append(@, ErrorPart(<<"terminated">>)),
                        !.closes = @ + 1, !.ending = "readThrew"]

Bridge ==
    \/ BridgeRejects
    \/ BridgeFetchThrows
    \/ BridgeBackendError
    \/ BridgeStreams
    \/ BridgeRead
    \/ BridgeUpstreamEnds
    \/ BridgeReadThrows

\* ---- a client of the session endpoints: DELETE, DELETE again, then GET, for one id
NoClient ==
    [phase |-> "before",     \* before, deleting, deleted, deletingAgain, deletedAgain,
                             \* asking, asked
     sid |-> Null,           \* the session id of its requests
     existed |-> FALSE,      \* the id named a session when the first DELETE arrived
     once |-> [cm |-> [sessions |-> [sid \in SessIds |-> 0], objs |-> <<>>, arrays |-> <<>>],
               log |-> [sid \in SessIds |-> <<>>]]]   \* the store after the first DELETE

\* the store clearSession is called on: built by earlier requests, the sweep and the clock
ClientBefore ==
    /\ client.phase = "before"
    /\ \/ addMessage("c1")
       \/ applyMessageWindowing("c1")
       \/ SetSessionContext("c1")
    /\ UNCHANGED client

\* the sweep and the clock, until the first DELETE has been answered
ClientTimers ==
    /\ client.phase \in {"before", "deleting"}
    /\ startCleanup \/ Tick
    /\ UNCHANGED client

\* DELETE /session/:sessionId, the first time
FirstDelete ==
    \/ /\ client.phase = "before"
       /\ \E sid \in SessIds :
            /\ ClearSessionStart("c1", sid)
            /\ client' = [phase |-> IF Has(cm, sid) THEN "deleting" ELSE "deleted",
                          sid |-> sid,
                          existed |-> Has(cm, sid),
                          once |-> [cm |-> cm', log |-> log']]
    \/ /\ client.phase = "deleting"
       /\ ClearSessionDelete("c1")
       /\ client' = [client EXCEPT !.phase = "deleted",
                                   !.once = [cm |-> cm', log |-> log']]

\* the same DELETE again, nothing having happened in between
SecondDelete ==
    /\ \/ client.phase = "deleted" /\ ClearSessionStart("c1", client.sid)
       \/ client.phase = "deletingAgain" /\ ClearSessionDelete("c1")
    /\ client' = [client EXCEPT !.phase = IF pc'["c1"] = "idle" THEN "deletedAgain"
                                          ELSE "deletingAgain"]

\* GET /session/:sessionId for the id just cleared
AskInfo ==
    /\ \/ client.phase = "deletedAgain" /\ GetSessionInfoStart("c1", client.sid)
       \/ client.phase = "asking" /\ GetSessionInfoReturn("c1")
    /\ client' = [client EXCEPT !.phase = IF pc'["c1"] = "idle" THEN "asked" ELSE "asking"]

\* -------------------------------------------------------------- initial state
\* The clock starts one sessionTimeout after process start.  "s1" is unknown, or was
\* created at time 0, holds the messages of n earlier appends and was not accessed since.
InitLens == {10}

NoRet == [op |-> Null, sid |-> Null, val |-> Null]

\* the store before any request of the behaviour, the clock reading t
StoreAt(t) ==
    /\ now = t
    /\ \/ cm = [sessions |-> [sid \in SessIds |-> 0], objs |-> <<>>, arrays |-> <<>>]
          /\ log = [sid \in SessIds |-> <<>>]
       \/ \E n \in InitLens :
            /\ cm = [sessions |-> [sid \in SessIds |-> IF sid = "s1" THEN 1 ELSE 0],
                     objs |-> <<[history |-> 1, lastAccessed |-> 0, context |-> Null]>>,
                     arrays |-> <<OldMessages(n)>>]
            /\ log = [sid \in SessIds |-> IF sid = "s1" THEN OldMessages(n) ELSE <<>>]
    /\ loc = [p \in Procs |-> NoLoc]
    /\ ret = NoRet
    /\ nAdds = 0

InitStore == StoreAt(sessionTimeout)

Init ==
    /\ InitStore
    /\ pc = [p \in Procs |-> "idle"]
    /\ turn = [p \in Turns |-> NoTurn]
    /\ br = NoBridge
    /\ client = NoClient

\* the calls one caller makes on the message history of the sessions
HistoryCall(p) ==
    \/ addMessage(p)
    \/ applyMessageWindowing(p)
    \/ getMessages(p)
    \/ clearSession(p)
    \/ getSessionInfo(p)

\* the store driven by one sequential caller, the sweep timer and the clock
SeqNext ==
    /\ \/ HistoryCall("c1")
       \/ startCleanup
       \/ Tick
    /\ UNCHANGED <<turn, br, client>>

SeqSpec == Init /\ [][SeqNext]_vars

\* calls a second request makes while the first one is suspended at an await
ConcurrentCall(p) ==
    \/ SetSessionContext(p)
    \/ GetSessionContext(p)
    \/ clearSession(p)
    \/ getSessionInfo(p)

\* the store driven by two callers interleaving at every await
StoreNext ==
    /\ \/ addMessage("c1")
       \/ applyMessageWindowing("c1")
       \/ getMessages("c1")
       \/ ConcurrentCall("c2")
       \/ startCleanup
       \/ Tick
    /\ UNCHANGED <<turn, br, client>>

StoreSpec == Init /\ [][StoreNext]_vars

\* The sweep timer: the clock reaches the next multiple of cleanupInterval only after
\* the callback due at the current one has run (it has nothing left to remove).
TimerTick ==
    /\ \A sid \in SessIds : ~Expired(cm, sid, now)
    /\ Tick
    /\ UNCHANGED <<turn, br, client>>

TimerCallback == startCleanup /\ UNCHANGED <<turn, br, client>>

\* the requests that touch a session between two callbacks
Touch(p) ==
    \/ SetSessionContext(p)
    \/ GetSessionContext(p)

SweepInit ==
    /\ StoreAt(0)
    /\ pc = [p \in Procs |-> "idle"]
    /\ turn = [p \in Turns |-> NoTurn]
    /\ br = NoBridge
    /\ client = NoClient

SweepNext ==
    \/ Touch("c1") /\ UNCHANGED <<turn, br, client>>
    \/ TimerCallback
    \/ TimerTick

\* setInterval keeps firing the callback and time keeps passing (up to MaxTime)
SweepSpec ==
    SweepInit /\ [][SweepNext]_vars /\ WF_cm(TimerCallback) /\ WF_now(TimerTick)

\* one request reads (GET /session/:sessionId, getSessionContext) while another sets
\* contexts and clears sessions, the sweep timer fires and time passes
ReadRequest(p) ==
    /\ pc[p] = "idle" => ret.op = Null
    /\ getSessionInfo(p) \/ GetSessionContext(p)

\* the caller takes the value returned and answers its client (chat.js l.171-181)
Respond(p) ==
    /\ pc[p] = "idle"
    /\ ret.op # Null
    /\ ret' = NoRet
    /\ UNCHANGED <<cm, now, pc, loc, log, nAdds>>

ReadNext ==
    \/ /\ \/ ReadRequest("c1")
          \/ Respond("c1")
          \/ SetSessionContext("c2")
          \/ clearSession("c2")
       /\ UNCHANGED <<turn, br, client>>
    \/ TimerCallback
    \/ TimerTick

ReadSpec == SweepInit /\ [][ReadNext]_vars

\* two requests interleaving at every await: one appends, the other sets contexts and
\* clears sessions, each under any session id
IsoNext ==
    /\ \/ addMessage("c1")
       \/ applyMessageWindowing("c1")
       \/ SetSessionContext("c2")
       \/ clearSession("c2")
    /\ UNCHANGED <<turn, br, client>>

IsoSpec == Init /\ [][IsoNext]_vars

\* ------------------------------------------- the accumulation loop on its own
MaxFrags == 3         \* fragments of one tool call

\* fragments of the call with index 0: with or without id and name, any argument piece
SameIndexChunks ==
    {ToolChunk(<<>>, 0, h[1], h[2], args) :
        h \in {<<"call_0", "list_documents">>, <<"", "">>},
        args \in {<<>>, <<"{">>, <<"}">>}}

\* one iteration of `for await (const chunk of stream)` as far as the accumulator goes
AccumulateFragment(p) ==
    /\ Len(turn[p].stream1) < MaxFrags
    /\ \E chunk \in SameIndexChunks :
          turn' = [turn EXCEPT ![p].stream1 = Append(@, chunk),
                               ![p].accumulated = Concat(@, chunk)]
    /\ UNCHANGED storeVars

AccNext == AccumulateFragment("t1") /\ UNCHANGED <<br, client>>

AccSpec == Init /\ [][AccNext]_vars

\* the session endpoints DELETE and GET /api/chat/session/:sessionId
SessionEndpoint(p) ==
    /\ pc[p] = "idle" => ret = NoRet
    /\ clearSession(p) \/ getSessionInfo(p)
    /\ UNCHANGED turn

\* one chat turn, with one session-endpoint request interleaving at its awaits
Next ==
    /\ \/ Turn("t1")
       \/ SessionEndpoint("c1")
    /\ UNCHANGED <<br, client>>

Spec == Init /\ [][Next]_vars

\* the client's connection closes while a generation stream is being consumed; the
\* route registers no listener for it, and a write to the closed connection is dropped
ClientDisconnects(p) ==
    /\ pc[p] \in {"firstPass", "synthesis"}
    /\ turn[p].disconnectedAt.stage = "none"
    /\ turn' = [turn EXCEPT ![p].disconnectedAt =
                  [stage |-> pc[p],
                   consumed |-> IF pc[p] = "firstPass" THEN Len(turn[p].stream1)
                                ELSE Len(turn[p].stream2)]]
    /\ UNCHANGED storeVars

\* one chat turn whose client may leave
CancelNext ==
    /\ \/ Turn("t1")
       \/ ClientDisconnects("t1")
    /\ UNCHANGED <<br, client>>

CancelSpec == Init /\ [][CancelNext]_vars

\* an earlier request of a session carried a context, which the route stored with
\* setSessionContext; a later turn arrives, with or without a context of its own
EarlierContext(p) ==
    /\ pc["t1"] = "idle"
    /\ SetSessionContext(p)
    /\ UNCHANGED turn

LaterNext ==
    /\ \/ EarlierContext("c1")
       \/ Turn("t1")
    /\ UNCHANGED <<br, client>>

LaterSpec == Init /\ [][LaterNext]_vars

\* The history of a session is an InMemoryChatMessageHistory: the promises of its
\* methods settle without I/O, and the event loop drains the continuations waiting
\* on them before it runs another request's handler or a timer callback.  A turn
\* in flight lets others in only where it waits for I/O: the chain, a retrieval, a
\* generation stream, a tool.
Parked(p) ==
    pc[p] \in {"getChain", "retrieval", "firstPass", "toolInvoke",
               "synthesisRetrieval", "synthesis"}

\* one chat turn and what the event loop runs while it is in flight: DELETE
\* requests, the sweep timer and the clock
LoopNext ==
    \/ /\ pc["c1"] = "idle"
       /\ Turn("t1")
       /\ UNCHANGED <<br, client>>
    \/ /\ Parked("t1")
       /\ clearSession("c1")
       /\ UNCHANGED <<turn, br, client>>
    \/ /\ Parked("t1") /\ pc["c1"] = "idle"
       /\ TimerCallback \/ TimerTick

LoopSpec == SweepInit /\ [][LoopNext]_vars

\* the protocol bridge on its own: one POST, the upstream body arriving in reads of any size
BridgeNext ==
    /\ Bridge
    /\ UNCHANGED <<storeVars, turn, client>>

\* the bridge keeps no session: the store plays no part
BridgeInit == Init /\ cm.objs = <<>>

BridgeSpec == BridgeInit /\ [][BridgeNext]_vars

\* the bridge under a backend that writes one more event after its response: the route
\* never does so after done or error, the bridge does not rely on it
LateEvents == {TokenPayload(<<"a">>), ErrorPayload, DonePayload}

LateBodies ==
    {[events |-> es, at |-> Len(es) + 1, other |-> SSEFrame(e)] :
        es \in {s \in StageOneSeqs : Len(s) + 2 <= MaxItems}, e \in LateEvents}

\* l.56-62, l.136 for such a body
BridgeStreamsLate ==
    /\ br.pc = "idle"
    /\ \E body \in LateBodies :
         br' = [br EXCEPT !.pc = "reading", !.status = 200, !.body = body,
                          !.text = BodyText(body)]

LateNext ==
    /\ \/ BridgeStreamsLate
       \/ BridgeRead
       \/ BridgeUpstreamEnds
       \/ BridgeReadThrows
    /\ UNCHANGED <<storeVars, turn, client>>

LateSpec == BridgeInit /\ [][LateNext]_vars

\* the response body of the chat route as sendSSEEvent builds it: one res.write per
\* event, of any type and in any order
ResWrite ==
    /\ br.pc = "idle"
    /\ Len(br.body.events) < MaxItems
    /\ \E event \in StageOneEvents :
         br' = [br EXCEPT !.body.events = Append(@, event),
                          !.text = @ \o SSEFrame(event)]

FrameNext == ResWrite /\ UNCHANGED <<storeVars, turn, client>>

FrameSpec == BridgeInit /\ [][FrameNext]_vars

\* the store under a client that clears a session twice in a row and then asks for it
ClearNext ==
    /\ \/ ClientBefore
       \/ ClientTimers
       \/ FirstDelete
       \/ SecondDelete
       \/ AskInfo
    /\ UNCHANGED <<turn, br>>

ClearSpec == Init /\ [][ClearNext]_vars

\* ================================================================ properties
Sid(p) == turn[p].validation.sessionId
Validated(p) == turn[p].status = 200
Calls(p) == tool_calls(turn[p].accumulated)
LastOf(s) == s[Len(s)]
Range(s) == {s[k] : k \in DOMAIN s}
TypesOf(ev) == [k \in DOMAIN ev |-> ev[k].type]
CountType(ev, ty) == Cardinality({k \in DOMAIN ev : ev[k].type = ty})
HasType(ev, ty) == \E k \in DOMAIN ev : ev[k].type = ty
ToolEventTypes == {"tool_executing", "tool_result", "tool_error"}
TerminalTypes == {"done", "error"}
EndsWith(ev, ty) == ev # <<>> /\ LastOf(ev).type = ty

\* position of the first tool_executing event, Len(ev) + 1 when there is none
ToolExecIdx(ev) ==
    CHOOSE k \in 1..(Len(ev) + 1) :
        /\ k = Len(ev) + 1 \/ ev[k].type = "tool_executing"
        /\ \A j \in 1..(k - 1) : ev[j].type # "tool_executing"

\* contents of the token events at positions lo..hi, in order
RECURSIVE TokenList(_, _, _)
TokenList(ev, lo, hi) ==
    IF lo > hi THEN <<>>
    ELSE (IF ev[lo].type = "token" THEN <<ev[lo].content>> ELSE <<>>)
         \o TokenList(ev, lo + 1, hi)

FirstPassTokens(ev) == TokenList(ev, 1, ToolExecIdx(ev) - 1)
SynthesisTokens(ev) == TokenList(ev, ToolExecIdx(ev) + 1, Len(ev))

\* concatenation of a list of text fragments
RECURSIVE Flatten(_)
Flatten(list) == IF list = <<>> THEN <<>> ELSE list[1] \o Flatten(Tail(list))

\* tool names of the tool_result / tool_error events, in order
RECURSIVE ToolEventNames(_)
ToolEventNames(ev) ==
    IF ev = <<>> THEN <<>>
    ELSE (IF ev[1].type \in {"tool_result", "tool_error"} THEN <<ev[1].tool>> ELSE <<>>)
         \o ToolEventNames(Tail(ev))

\* the step in which a turn fixes savedResponse and pushes the assistant message
Persists(p) == turn[p].savedResponse = <<>> /\ turn'[p].savedResponse # <<>>

\* ---- C1
\* C1: a turn whose first-pass stream ended with no accumulated tool call emits no
\* tool_executing / tool_result / tool_error event, opens no second generation
\* stream, and the assistant message it appends to its session is the
\* concatenation of the token events it emitted, in emission order.
C1_State(p) ==
    LET t == turn[p]
    IN (t.savedResponse # <<>> /\ Len(Calls(p)) = 0) =>
          /\ \A k \in DOMAIN t.events : t.events[k].type \notin ToolEventTypes
          /\ t.generations = 1
          /\ t.savedResponse = <<Flatten(FirstPassTokens(t.events))>>

C1_Step(p) ==
    (Persists(p) /\ Len(tool_calls(turn'[p].accumulated)) = 0) =>
        /\ Has(cm', Sid(p))
        /\ Messages(cm', Sid(p)) # <<>>
        /\ LastOf(Messages(cm', Sid(p))) =
              AIMessage(Flatten(FirstPassTokens(turn'[p].events)))

C1_NoToolTurn ==
    /\ [](\A p \in Turns : C1_State(p))
    /\ [][\A p \in Turns : C1_Step(p)]_vars

C1_Witness ==
    \E p \in Turns :
        /\ pc[p] = "finished"
        /\ EndsWith(turn[p].events, "done")
        /\ Len(Calls(p)) = 0
        /\ turn[p].savedResponse = << <<"b", "a">> >>

\* ---- C2
\* C2: a turn whose accumulated first-pass message carries at least one tool call
\* and that ends with done emits exactly one tool_executing event, before every
\* tool_result and tool_error event, and its saved answer is the concatenation of
\* the synthesis-pass token events, never the first-pass text.
C2_ToolTurnPersistsSynthesis ==
    \A p \in Turns :
        LET ev == turn[p].events
        IN (Len(Calls(p)) > 0 /\ EndsWith(ev, "done")) =>
              /\ CountType(ev, "tool_executing") = 1
              /\ \A k \in DOMAIN ev :
                    ev[k].type \in {"tool_result", "tool_error"} => ToolExecIdx(ev) < k
              /\ turn[p].savedResponse = <<Flatten(SynthesisTokens(ev))>>

\* ---- C3
\* C3: every failed tool call (unregistered tool, or the implementation throws)
\* yields a tool_error event and a recorded result carrying the error text, so
\* the executor returns one result per requested call and the synthesis pass runs
\* whenever the tool-execution step ran.
C3_FailedCallsAreRecorded ==
    \A p \in Turns :
        /\ pc[p] = "toolsReturned" => Len(turn[p].results) = Len(Calls(p))
        /\ (Len(Calls(p)) > 0 /\ EndsWith(turn[p].events, "done")) =>
              turn[p].generations = 2

\* ---- C4
NonToolFailures == {"initialization failed", "retrieval failed", "generation failed"}

\* C4: a failing tool call never aborts the turn: while the executor runs, the
\* calls before its position have each produced their event, once it is past the
\* last call every requested call has produced one, in request order; an error
\* event never stems from a tool; and a turn that finishes without an error event
\* ends with done and a saved answer.
C4_State(p) ==
    LET t == turn[p]
        ev == t.events
        calls == Calls(p)
    IN /\ (t.i >= 1 /\ Len(calls) > 0) =>
             ToolEventNames(ev) = Names(SubSeq(calls, 1, t.i - 1))
       /\ (t.i >= 1 /\ pc[p] \notin {"firstPass", "toolInvoke"} /\ Len(calls) > 0) =>
             t.i = Len(calls) + 1
       /\ \A k \in DOMAIN ev : ev[k].type = "error" => ev[k].message \in NonToolFailures
       /\ (pc[p] = "finished" /\ ~HasType(ev, "error")) =>
             EndsWith(ev, "done") /\ t.savedResponse # <<>>

C4_ToolFailureIsolated == \A p \in Turns : Validated(p) => C4_State(p)

C4_Witness ==
    \E p \in Turns :
        /\ pc[p] = "finished"
        /\ EndsWith(turn[p].events, "done")
        /\ Len(Calls(p)) = 2
        /\ \E j, k \in DOMAIN turn[p].events :
              /\ j < k
              /\ turn[p].events[j].type = "tool_error"
              /\ turn[p].events[k].type = "tool_result"

\* ---- C5
\* C5: a turn that fails emits exactly one error event, as its last event,
\* carrying the failure's message, and ends the response; it never fixed an answer
\* to save, and every assistant message its session holds was there before the turn.
C5_State(p) ==
    LET t == turn[p]
        ev == t.events
    IN HasType(ev, "error") =>
          /\ CountType(ev, "error") = 1
          /\ LastOf(ev).type = "error"
          /\ LastOf(ev).message \in NonToolFailures
          /\ t.ended
          /\ pc[p] = "finished"
          /\ t.savedResponse = <<>>
          /\ Has(cm, Sid(p)) =>
                \A m \in Range(Messages(cm, Sid(p))) :
                    m.role = "assistant" => m \in Range(t.before)

C5_ErrorPersistsNoAnswer == \A p \in Turns : C5_State(p)

C5_Witness ==
    \E p \in Turns :
        /\ HasType(turn[p].events, "error")
        /\ turn[p].synthesisParts # <<>>
        /\ turn[p].textParts # <<>>
        /\ Has(cm, Sid(p))
        /\ Messages(cm, Sid(p)) # <<>>

\* ---- C6
\* C6: a turn aborted by a retrieval or generation failure persists nothing: after
\* the error event, and with no other request having touched the store, the
\* session's message list is what it was before the turn.
C6_ErrorPersistsNothing ==
    \A p \in Turns :
        (/\ EndsWith(turn[p].events, "error")
         /\ LastOf(turn[p].events).message \in {"retrieval failed", "generation failed"}
         /\ pc["c1"] = "idle" /\ ret = NoRet
         /\ Has(cm, Sid(p))) =>
            Messages(cm, Sid(p)) = turn[p].before

\* ---- C7
\* C7: a validated turn writes at most one terminal event (done or error), never
\* both; a terminal event is the last event; the response is ended exactly when
\* a terminal event has been written; nothing is written after res.end(); and a
\* turn whose handler has returned has its terminal event.
C7_State(p) ==
    LET t == turn[p]
        ev == t.events
    IN /\ CountType(ev, "done") + CountType(ev, "error") <= 1
       /\ \A k \in DOMAIN ev : ev[k].type \in TerminalTypes => k = Len(ev)
       /\ t.ended <=> (ev # <<>> /\ LastOf(ev).type \in TerminalTypes)
       /\ t.writesAfterEnd = 0
       /\ pc[p] = "finished" => t.ended

C7_OneTerminalEvent == \A p \in Turns : Validated(p) => C7_State(p)

C7_Witness ==
    \E p \in Turns :
        /\ pc[p] = "finished"
        /\ EndsWith(turn[p].events, "done")
        /\ turn[p].synthesisParts # <<>>
        /\ turn[p].ended

\* ---- C8
\* C8: once the addMessage calls made on a session since it was created have all
\* completed (N of them, none in flight), the session holds min(N, max) messages:
\* the last min(N, max) appended, in append order.
C8_State(sid) ==
    LET ms == Messages(cm, sid)
        lg == log[sid]
    IN /\ Len(ms) = Min(Len(lg), maxMessagesPerSession)
       /\ \A k \in 1..Len(ms) : ms[k] = lg[Len(lg) - Len(ms) + k]

C8_Windowing ==
    pc["c1"] = "idle" => \A sid \in SessIds : Has(cm, sid) => C8_State(sid)

C8_Witness ==
    /\ pc["c1"] = "idle"
    /\ Has(cm, "s1")
    /\ Len(log["s1"]) = maxMessagesPerSession + 2
    /\ Len(Messages(cm, "s1")) = maxMessagesPerSession
    /\ Messages(cm, "s1")[1] = OldMessages(3)[3]

\* ---- C9
\* C9: in every state another operation can observe, every session in the map
\* holds at most maxMessagesPerSession messages.
C9_WindowBoundAlways ==
    \A sid \in SessIds : Has(cm, sid) => Len(Messages(cm, sid)) <= maxMessagesPerSession

\* ---- C10
\* the event types of a turn follow: session, first-pass tokens, then optionally
\* tool_executing, tool results / errors, synthesis tokens, then done or error
RECURSIVE Ordered(_, _, _)
Ordered(types, k, phase) ==
    IF k > Len(types) THEN TRUE
    ELSE LET ty == types[k]
         IN CASE phase = 0 -> ty = "session" /\ Ordered(types, k + 1, 1)
              [] phase = 1 -> \/ ty = "token" /\ Ordered(types, k + 1, 1)
                              \/ ty = "tool_executing" /\ Ordered(types, k + 1, 2)
                              \/ ty \in TerminalTypes /\ Ordered(types, k + 1, 4)
              [] phase = 2 -> \/ ty \in {"tool_result", "tool_error"} /\ Ordered(types, k + 1, 2)
                              \/ ty = "token" /\ Ordered(types, k + 1, 3)
                              \/ ty \in TerminalTypes /\ Ordered(types, k + 1, 4)
              [] phase = 3 -> \/ ty = "token" /\ Ordered(types, k + 1, 3)
                              \/ ty \in TerminalTypes /\ Ordered(types, k + 1, 4)
              [] OTHER -> FALSE

\* the non-empty text of the chunks a stream delivered, in arrival order
RECURSIVE ArrivedText1(_)
ArrivedText1(chunks) ==
    IF chunks = <<>> THEN <<>>
    ELSE (IF chunks[1].content # <<>> THEN <<chunks[1].content>> ELSE <<>>)
         \o ArrivedText1(Tail(chunks))

RECURSIVE ArrivedText2(_)
ArrivedText2(chunks) ==
    IF chunks = <<>> THEN <<>>
    ELSE (IF chunks[1].isString /\ chunks[1].content # <<>>
          THEN <<chunks[1].content>> ELSE <<>>)
         \o ArrivedText2(Tail(chunks))

\* C10: the events of a turn are, in order: session; the first-pass token events,
\* one per chunk that carries text, in arrival order; then, only if tool calls
\* were accumulated, tool_executing, the per-call tool_result / tool_error events
\* and the synthesis token events in arrival order; then the terminal event.  No
\* tool event is written while the first-pass stream is being read, and a chunk
\* that carries only a tool-call fragment writes nothing.
C10_State(p) ==
    LET t == turn[p]
        ev == t.events
        calls == Calls(p)
    IN /\ Ordered(TypesOf(ev), 1, 0)
       /\ FirstPassTokens(ev) = ArrivedText1(t.stream1)
       /\ SynthesisTokens(ev) = ArrivedText2(t.stream2)
       /\ pc[p] = "firstPass" => \A k \in DOMAIN ev : ev[k].type \notin ToolEventTypes
       /\ \A k \in DOMAIN ev :
             ev[k].type = "tool_executing" =>
                Len(calls) > 0 /\ ev[k].tools = Names(calls)
       /\ Len(calls) = 0 => \A k \in DOMAIN ev : ev[k].type \notin ToolEventTypes

C10_EventOrder == [](\A p \in Turns : Validated(p) => C10_State(p))

C10_Witness ==
    \E p \in Turns :
        /\ pc[p] = "finished"
        /\ TypesOf(turn[p].events) =
              <<"session", "token", "tool_executing", "tool_error", "tool_result",
                "token", "done">>
        /\ Len(turn[p].stream1) = 2
        /\ turn[p].stream1[1].content = <<>>

\* ---- C11
\* calls among the first n of a list whose tool is registered
RegisteredAmong(calls, n) ==
    Cardinality({k \in 1..n : calls[k].name \in RegisteredTools})

\* C11: tool calls run one at a time in request order.  The tool_executing event
\* names all k requested tools in request order.  While invocation i is awaited,
\* exactly the calls before i have produced their event and every earlier
\* invocation has settled; once the executor has returned, exactly k tool_result /
\* tool_error events have been written, the i-th naming the i-th requested call.
\* An invocation settles only as the call at the executor's position, and a step
\* settles at most one.
C11_State(p) ==
    LET t == turn[p]
        ev == t.events
        calls == Calls(p)
        k == Len(calls)
        toolEvents == ToolEventNames(ev)
    IN /\ \A j \in DOMAIN ev :
             ev[j].type = "tool_executing" =>
                /\ Len(ev[j].tools) = k
                /\ \A n \in 1..k : ev[j].tools[n] = calls[n].name
       /\ pc[p] = "toolInvoke" =>
             /\ t.i \in 1..k
             /\ calls[t.i].name \in RegisteredTools
             /\ Len(toolEvents) = t.i - 1
             /\ \A n \in 1..(t.i - 1) : toolEvents[n] = calls[n].name
             /\ Len(t.invoked) = RegisteredAmong(calls, t.i - 1)
       /\ (HasType(ev, "tool_executing") /\ pc[p] \notin {"firstPass", "toolInvoke"}) =>
             /\ Len(toolEvents) = k
             /\ \A n \in 1..k : toolEvents[n] = calls[n].name
             /\ Len(t.invoked) = RegisteredAmong(calls, k)

C11_Step(p) ==
    Len(turn'[p].invoked) # Len(turn[p].invoked) =>
        /\ pc[p] = "toolInvoke"
        /\ turn'[p].invoked = Append(turn[p].invoked, LastOf(turn'[p].invoked))
        /\ LastOf(turn'[p].invoked).name = Calls(p)[turn[p].i].name
        /\ turn'[p].i > turn[p].i

C11_SequentialTools ==
    /\ [](\A p \in Turns : Validated(p) => C11_State(p))
    /\ [][\A p \in Turns : C11_Step(p)]_vars

C11_Witness ==
    \E p \in Turns :
        /\ pc[p] = "finished"
        /\ EndsWith(turn[p].events, "done")
        /\ Len(Calls(p)) = 2
        /\ Len(turn[p].invoked) = 1
        /\ Calls(p)[1].name \notin RegisteredTools
        /\ ToolEventNames(turn[p].events) = <<"web_search", "list_documents">>

\* ---- C12
\* positions, among the tool_result / tool_error events of a turn, of the
\* tool_result events: the j-th entry is the request position of the call that
\* produced the j-th recorded result (each call writes exactly one such event)
RECURSIVE ProducingCalls(_, _)
ProducingCalls(ev, n) ==
    IF ev = <<>> THEN <<>>
    ELSE IF ev[1].type = "tool_result" THEN <<n>> \o ProducingCalls(Tail(ev), n + 1)
    ELSE IF ev[1].type = "tool_error" THEN ProducingCalls(Tail(ev), n + 1)
    ELSE ProducingCalls(Tail(ev), n)

\* the synthetic tool turns of the synthesis input
ToolTurns(p) == SelectSeq(turn[p].synthesisMessages, LAMBDA m : m.type = "tool")

\* C12: in the synthesis input every synthetic tool turn carries the id of the
\* requested call whose execution produced its result, whatever calls failed.
C12_ToolTurnsKeyedByProducer ==
    \A p \in Turns :
        turn[p].synthesisMessages # <<>> =>
            LET producers == ProducingCalls(turn[p].events, 1)
            IN /\ Len(ToolTurns(p)) = Len(producers)
               /\ \A j \in 1..Len(producers) :
                     /\ ToolTurns(p)[j].name = Calls(p)[producers[j]].name
                     /\ ToolTurns(p)[j].tool_call_id = Calls(p)[producers[j]].id

\* ---- bridge properties
\* the lines of the bridge's output body (every one ended by its line feed)
OutLines ==
    LET parts == Split(Flat(br.out), 1, 1, <<>>)
    IN SubSeq(parts, 1, Len(parts) - 1)
LinesWith(prefix) == SelectSeq(OutLines, LAMBDA l : l # <<>> /\ l[1] = prefix)
TokenEvents(es) == SelectSeq(es, LAMBDA e : Prop(e, "type") = Str(<<"token">>))
\* what the client gets from JSON.parse of a line's text after the two-character prefix
Decoded(line) == JsonParse(SubSeq(line, 2, Len(line)))
\* the upstream body is a response that ran to its done event
EndsInDone ==
    /\ br.body.at = 0
    /\ br.body.events # <<>>
    /\ LastOf(br.body.events) = DonePayload
\* the bridge has taken the upstream body to its end (no read failed)
Delivered == br.pc = "closed" /\ br.ending # "readThrew"

\* ---- C13
\* When the upstream body is a complete response (session first, done last) and the
\* bridge has taken it to its end, the output has exactly one finish line, which is its
\* last line, and its text-part lines are, in order, one per token event, each
\* decoding to the content of its token event.
C13_BridgeRoundTrip ==
    Delivered /\ EndsInDone =>
        LET lines == OutLines
            tokens == TokenEvents(br.body.events)
            texts == LinesWith("0:")
        IN /\ Len(LinesWith("d:")) = 1
           /\ lines # <<>> /\ LastOf(lines)[1] = "d:"
           /\ Len(texts) = Len(tokens)
           /\ \A j \in 1..Len(tokens) :
                /\ Decoded(texts[j]).ok
                /\ Decoded(texts[j]).val = Prop(tokens[j], "content")

C13_Witness ==
    /\ Delivered /\ EndsInDone
    /\ LET tokens == TokenEvents(br.body.events)
       IN /\ Len(tokens) = 2
          /\ Prop(tokens[1], "content") = Str(<<NL, QUOTE, BSLASH, "n">>)
          /\ Prop(tokens[2], "content") = Str(<<"a">>)
    /\ Len(br.out) = 4

\* ---- C14
\* no done event is among the events of the upstream body
NoDoneEvent == \A i \in 1..Len(br.body.events) : br.body.events[i] # DonePayload

\* When the upstream body holds no done event and ends, the bridge writes exactly one
\* finish line, as its last line, and closes the output stream once.  The stream comes
\* to its close: a bridge that is reading has not run past the end of the body, and
\* each of its steps takes at least one more piece of the body or closes the stream.
C14_FinishSynthesized ==
    /\ [](/\ Delivered /\ NoDoneEvent =>
               /\ br.ending = "upstreamEnded"
               /\ Len(LinesWith("d:")) = 1
               /\ LastOf(br.out) = FinishLine
               /\ br.closes = 1
          /\ br.pc = "reading" => br.pos <= Len(br.text) /\ br.closes = 0)
    /\ [][br.pc = "reading" =>
             \/ br'.pc = "closed" /\ br'.closes = 1
             \/ br'.pc = "reading" /\ br'.pos > br.pos]_vars

C14_Witness ==
    /\ Delivered /\ NoDoneEvent
    /\ Len(br.body.events) = MaxItems
    /\ LastOf(br.body.events) = ErrorPayload
    /\ Len(br.out) = MaxItems + 1

\* ---- C15
\* the bridge that is handed, in a single read, all the text this one has been handed
InOneRead ==
    LET fresh == [NoBridge EXCEPT !.pc = "reading", !.status = 200,
                                  !.body = br.body, !.text = br.text]
    IN IF br.pos = 0 THEN fresh ELSE OnChunk(fresh, br.pos)
\* the text handed over so far that follows its last line feed
Unterminated ==
    LET feeds == {i \in 1..br.pos : br.text[i] = NL}
        last == IF feeds = {} THEN 0 ELSE CHOOSE i \in feeds : \A j \in feeds : j <= i
    IN SubSeq(br.text, last + 1, br.pos)

\* However the upstream body is cut into reads, the output is the one a single read of
\* the same text gives (followed by the line that reports how the body ended); while
\* reading, the buffer is exactly the text after the last line feed handed over, so a
\* line is translated only after its line feed has arrived.
C15_SplitIndependent ==
    /\ br.pc = "reading" =>
         /\ InOneRead.pc = "reading"
         /\ br.out = InOneRead.out
         /\ br.buffer = Unterminated
    /\ br.pc = "closed" =>
         /\ br.ending = "done" => InOneRead.pc = "closed" /\ br.out = InOneRead.out
         /\ br.ending = "upstreamEnded" =>
              InOneRead.pc = "reading" /\ br.out = Append(InOneRead.out, FinishLine)
         /\ br.ending = "readThrew" =>
              /\ InOneRead.pc = "reading"
              /\ br.out = Append(InOneRead.out, ErrorPart(<<"terminated">>))

\* a read has ended inside the third data line, the first two having been translated
C15_Witness ==
    /\ br.pc = "reading"
    /\ Len(br.out) = 2
    /\ Len(br.buffer) > 2 /\ StartsWithData(br.buffer)
    /\ br.pos < Len(br.text) /\ br.text[br.pos + 1] # NL

\* ---- C16
\* When fetch throws, or the backend answers with a failure status or without a body,
\* the handler returns a response (it does not throw) whose body is complete and is
\* exactly one line, an error part carrying a JSON string; nothing is read or streamed.
C16_UpstreamFailureOneErrorLine ==
    br.ending \in {"fetchThrew", "backendError"} =>
        /\ br.pc = "returned" /\ br.status = 200
        /\ Len(OutLines) = 1 /\ Flat(br.out) = OutLines[1] \o <<NL>>
        /\ OutLines[1][1] = "3:"
        /\ Decoded(OutLines[1]).ok /\ Decoded(OutLines[1]).val.k = "str"
        /\ br.text = <<>> /\ br.pos = 0 /\ br.closes = 1

C16_Witness ==
    /\ br.ending = "backendError"
    /\ Decoded(OutLines[1]).val = Str(<<"Backend error: ", "500">>)

\* ---- C17
\* Once the client has disconnected while a generation stream was being consumed, the
\* turn takes no further chunk from that stream and appends no assistant message: the
\* session's assistant messages are those it held before the turn.
C17_DisconnectStopsTurn ==
    \A p \in Turns :
        LET t == turn[p]
            d == t.disconnectedAt
        IN d.stage # "none" =>
             /\ d.stage = "firstPass" => Len(t.stream1) = d.consumed
             /\ d.stage = "synthesis" => Len(t.stream2) = d.consumed
             /\ t.savedResponse = <<>>
             /\ Has(cm, Sid(p)) =>
                   \A m \in Range(Messages(cm, Sid(p))) :
                       m.role = "assistant" => m \in Range(t.before)

\* ---- C18
\* A request is answered with status 400 exactly when its message is missing, not a
\* string or empty.  A rejected request has changed nothing: the store is as it was
\* before the request (no session created, no context stored, no message appended), no
\* event was written, no retrieval and no generation was started, and its handler
\* has returned.
C18_State(p) ==
    LET t == turn[p]
    IN /\ t.status = 200 => t.validation.isValid /\ t.validation.message # <<>>
       /\ t.status # 0 /\ t.status # 200 =>
            /\ t.status = 400 /\ ~t.validation.isValid
            /\ pc[p] = "rejected"
            /\ t = [NoTurn EXCEPT !.validation = t.validation, !.status = 400,
                                  !.ended = TRUE]
            /\ InitStore

C18_InvalidRejectedFirst == \A p \in Turns : C18_State(p)

C18_Witness ==
    \E p \in Turns :
        /\ pc[p] = "rejected"
        /\ turn[p].status = 400
        /\ Has(cm, "s1") /\ Len(Messages(cm, "s1")) = maxMessagesPerSession

\* ---- C19
\* the text fragments of the first-pass stream that are not empty, in order
RECURSIVE NonEmptyTexts(_)
NonEmptyTexts(chunks) ==
    IF chunks = <<>> THEN <<>>
    ELSE (IF Head(chunks).content # <<>> THEN <<Head(chunks).content>> ELSE <<>>)
         \o NonEmptyTexts(Tail(chunks))
TokenEventsFor(texts) == [k \in 1..Len(texts) |-> TokenEvent(texts[k])]

\* The first event of every validated turn is the session event carrying its session
\* id.  A turn on a session that held no message, whose generation requested no tool
\* and did not fail, has written, when its handler returns, the session event, one
\* token event per non-empty fragment in stream order, and done; and the store then
\* holds for the session exactly the user message followed by the assistant message.
C19_State(p) ==
    LET t == turn[p]
        texts == NonEmptyTexts(t.stream1)
    IN /\ Validated(p) =>
            t.events # <<>> /\ t.events[1] = [type |-> "session", sessionId |-> Sid(p)]
       /\ (/\ Validated(p) /\ pc[p] = "finished"
           /\ t.before = <<>>
           /\ Len(Calls(p)) = 0
           /\ ~HasType(t.events, "error")) =>
            /\ t.events = <<[type |-> "session", sessionId |-> Sid(p)]>>
                          \o TokenEventsFor(texts) \o <<Event("done")>>
            /\ Has(cm, Sid(p))
            /\ Messages(cm, Sid(p)) = <<HumanMessage(t.validation.message),
                                        AIMessage(Flatten(texts))>>

C19_FreshSessionHappyPath == \A p \in Turns : C19_State(p)

C19_Witness ==
    \E p \in Turns :
        /\ pc[p] = "finished"
        /\ turn[p].stream1 = <<TextChunk(<<"b">>), TextChunk(<<>>)>>
        /\ TypesOf(turn[p].events) = <<"session", "token", "done">>
        /\ Len(Messages(cm, Sid(p))) = 2

\* ---- C20
\* After clearSession has returned, the id names no session.  A second clearSession for
\* the same id, with nothing in between, returns at once and leaves the store exactly
\* as the first call left it; getSessionInfo then reports the id as not found (null).
C20_ClearIdempotent ==
    /\ client.phase \in {"deleted", "deletedAgain", "asked"} =>
         /\ ~Has(cm, client.sid)
         /\ pc["c1"] = "idle"
         /\ cm = client.once.cm /\ log = client.once.log
    /\ client.phase \notin {"deletingAgain", "asking"}
    /\ client.phase \in {"deleted", "deletedAgain"} =>
         ret = [op |-> "clearSession", sid |-> client.sid, val |-> Null]
    /\ client.phase = "asked" =>
         ret = [op |-> "getSessionInfo", sid |-> client.sid, val |-> Null]

\* the session existed, held messages, and was cleared twice and asked for
C20_Witness ==
    /\ client.phase = "asked"
    /\ client.existed
    /\ client.sid = "s1"
    /\ Len(cm.arrays) >= 2 /\ cm.arrays[1] # <<>>
    /\ \E sid \in SessIds : Has(cm, sid)

\* ---- C21
\* a step of the sweep timer: no request moves, the clock stands, the map loses an entry
SweepStep ==
    /\ pc' = pc /\ now' = now
    /\ \E sid \in SessIds : Has(cm, sid) /\ ~Has(cm', sid)

InactiveTime(S, sid, t) == t - S.objs[S.sessions[sid]].lastAccessed

\* The sweep removes a session only if now - lastAccessed is strictly greater than the
\* timeout at the moment the sweep examines it: every session whose inactivity is at
\* most the timeout keeps its map entry and its object across the sweep, whatever the
\* requests in flight are doing.
C21_SweepOnlyInactive ==
    [][SweepStep =>
         /\ cm'.objs = cm.objs /\ cm'.arrays = cm.arrays
         /\ \A sid \in SessIds :
              \/ cm'.sessions[sid] = cm.sessions[sid]
              \/ /\ Has(cm, sid) /\ ~Has(cm', sid)
                 /\ InactiveTime(cm, sid, now) > sessionTimeout]_vars

\* the sweep has removed the idle session s1 (no clearSession has returned) and kept
\* s2, which a request touched within the timeout
C21_Witness ==
    /\ ~Has(cm, "s1") /\ Has(cm, "s2")
    /\ cm.objs[1].lastAccessed = 0
    /\ ret = NoRet
    /\ \A p \in Procs : pc[p] = "idle"
    /\ InactiveTime(cm, "s2", now) <= sessionTimeout

\* ---- C22
Inactive(S, sid, t) == Has(S, sid) /\ InactiveTime(S, sid, t) > sessionTimeout

\* While the timer runs, a session whose inactivity exceeds the timeout does not stay:
\* it is removed, unless a request touches it first.  The callback that finds it
\* inactive removes it in that very pass, so no session is ever seen more than one
\* interval past the timeout; with the map entry go its messages and its context
\* (the id then has no context, and a session created later under the same id is a
\* new object with a new history).
C22_EvictionLiveness ==
    /\ \A sid \in SessIds :
          Inactive(cm, sid, now) ~> (~Has(cm, sid) \/ ~Inactive(cm, sid, now))
    /\ [](\A sid \in SessIds :
            /\ Has(cm, sid) => InactiveTime(cm, sid, now) <= sessionTimeout + 1
            /\ ~Has(cm, sid) => getSessionContext(cm, sid) = Null)
    /\ [][/\ SweepStep => \A sid \in SessIds : Inactive(cm, sid, now) => ~Has(cm', sid)
          /\ \A sid \in SessIds :
               ~Has(cm, sid) /\ Has(cm', sid) =>
                  /\ cm'.sessions[sid] \notin DOMAIN cm.objs
                  /\ cm'.objs[cm'.sessions[sid]].history \notin DOMAIN cm.arrays]_vars

\* both sessions are gone at the end of the clock: s1 with its ten messages, and s2,
\* which a request had created and given a context
C22_Witness ==
    /\ \A sid \in SessIds : ~Has(cm, sid)
    /\ Len(cm.objs) = 2
    /\ cm.arrays[cm.objs[1].history] = OldMessages(10)
    /\ cm.objs[2].context = "ctxA"
    /\ now = MaxTime

\* ---- C23
\* what the store holds under one session id
SessionView(S, sid) ==
    IF Has(S, sid)
    THEN [present |-> TRUE, messages |-> Messages(S, sid),
          context |-> S.objs[S.sessions[sid]].context,
          lastAccessed |-> S.objs[S.sessions[sid]].lastAccessed]
    ELSE [present |-> FALSE, messages |-> <<>>, context |-> Null, lastAccessed |-> 0]

\* request p takes a step of a call it makes under session id sid
StepsOn(p, sid) ==
    /\ pc'[p] # pc[p] \/ loc'[p] # loc[p]
    /\ IF pc[p] = "idle" THEN loc'[p].sid = sid ELSE loc[p].sid = sid

\* Session isolation: a step of addMessage, of windowing or of clearSession made under
\* one session id leaves the messages, the context, the lastAccessed and the presence
\* of every other id as they were, and no step of any request (setSessionContext
\* included) changes what the store holds under two ids at once.
C23_SessionIsolation ==
    [][\A a \in SessIds : \A b \in SessIds \ {a} :
          /\ (\E p \in Callers : StepsOn(p, a)) =>
                SessionView(cm', b) = SessionView(cm, b)
          /\ SessionView(cm', a) # SessionView(cm, a) =>
                SessionView(cm', b) = SessionView(cm, b)]_vars

\* both ids hold a session with a context while the append under s1 is re-adding its
\* window, half of it still to come
C23_Witness ==
    /\ pc["c1"] = "windowingReAdd" /\ loc["c1"].sid = "s1"
    /\ Len(loc["c1"].keep) = 5
    /\ Has(cm, "s1") /\ Has(cm, "s2")
    /\ SessionView(cm, "s1").context = "ctxA"
    /\ SessionView(cm, "s2").context = "ctxB"
    /\ SessionView(cm, "s2").lastAccessed = now

\* ---- C24
MaxSets == 3          \* setSessionContext calls made in a row on one session

CtxSeqs == UNION {[1..n -> Ctxs] : n \in 1..MaxSets}

\* the store after setSessionContext(sid, seq[1]), ..., setSessionContext(sid, seq[n])
RECURSIVE SetAll(_, _, _, _)
SetAll(S, sid, seq, t) ==
    IF seq = <<>> THEN S
    ELSE SetAll(setSessionContext(S, sid, Head(seq), t), sid, Tail(seq), t)

\* Client context is last-write-wins per session.  From every store the requests and
\* the sweep produce, any sequence of setSessionContext calls on an id leaves
\* getSessionContext returning the value of the last call; an id without a session,
\* and a session just created, have the context null; a stored context changes only
\* through a setSessionContext call or the removal of the session; and every
\* getSessionContext call returns the stored value (null for an unknown id).
C24_ContextLastWriteWins ==
    /\ [](\A sid \in SessIds :
            /\ Has(cm, sid) \/ CanAlloc(cm) =>
                 /\ \A seq \in CtxSeqs :
                       getSessionContext(SetAll(cm, sid, seq, now), sid) = seq[Len(seq)]
                 /\ ~Has(cm, sid) =>
                       getSessionContext(getOrCreateSession(cm, sid, now), sid) = Null
            /\ ~Has(cm, sid) => getSessionContext(cm, sid) = Null)
    /\ [][/\ \A sid \in SessIds :
               getSessionContext(cm', sid) # getSessionContext(cm, sid) =>
                  \/ ~Has(cm', sid)
                  \/ cm' = setSessionContext(cm, sid, getSessionContext(cm', sid), now)
          /\ ret' # ret =>
               /\ ret'.op = "getSessionContext"
               /\ cm' = cm
               /\ ret'.val = IF Has(cm, ret'.sid)
                             THEN cm.objs[cm.sessions[ret'.sid]].context
                             ELSE Null]_vars

\* s1 started without a context, was given ctxA, and after a later call that stored
\* ctxB a getSessionContext returned ctxB
C24_Witness ==
    /\ ret = [op |-> "getSessionContext", sid |-> "s1", val |-> "ctxB"]
    /\ Has(cm, "s1") /\ cm.sessions["s1"] = 1
    /\ cm.objs[1].context = "ctxB"

\* ---- C25
\* the accumulator after the chunks of s, folded one by one from the first
RECURSIVE FoldChunks(_, _)
FoldChunks(acc, s) ==
    IF s = <<>> THEN acc ELSE FoldChunks(Concat(acc, Head(s)), Tail(s))

\* the ways of cutting s into contiguous non-empty groups
RECURSIVE Groupings(_)
Groupings(s) ==
    IF s = <<>> THEN {<<>>}
    ELSE UNION {{<<SubSeq(s, 1, k)>> \o g : g \in Groupings(SubSeq(s, k + 1, Len(s)))} :
                   k \in 1..Len(s)}

\* each group folded on its own, then the group results merged in order
MergeGroups(groups) ==
    FoldChunks(NoAccumulated,
               [k \in 1..Len(groups) |-> FoldChunks(NoAccumulated, groups[k])])

\* Accumulation is associative: the accumulator the loop has built from the fragments
\* of one call, one concat per fragment in arrival order, equals what results from
\* merging any contiguous groups of those fragments first and the groups afterwards;
\* the accumulated call has the same id, name and argument string either way.
C25_AccumulationAssociative ==
    \A p \in Turns :
        \A groups \in Groupings(turn[p].stream1) :
            /\ MergeGroups(groups) = turn[p].accumulated
            /\ tool_calls(MergeGroups(groups)) = tool_calls(turn[p].accumulated)

\* three fragments: the call's head with the opening brace, an empty piece, the
\* closing brace; accumulated into one call with the argument string {}
C25_Witness ==
    \E p \in Turns :
        /\ Len(turn[p].stream1) = 3
        /\ turn[p].accumulated.tool_call_chunks =
              <<[index |-> 0, id |-> "call_0", name |-> "list_documents",
                 args |-> <<"{", "}">>]>>
        /\ Cardinality(Groupings(turn[p].stream1)) = 4

\* ---- C26
\* Persist before done.  Whenever the done event of a turn has been written, the
\* turn has fixed its answer and the session holds it as its newest message (the
\* append, windowing included, has returned); done is written by the step that
\* closes the stream, as the last event, and a stream closed without an error event
\* ends with done.
C26_State(p) ==
    LET t == turn[p]
    IN /\ HasType(t.events, "done") =>
            /\ t.savedResponse # <<>>
            /\ Has(cm, Sid(p))
            /\ Messages(cm, Sid(p)) # <<>>
            /\ LastOf(Messages(cm, Sid(p))) = AIMessage(t.savedResponse[1])
            /\ pc[p] \in {"getMessagesReturn", "finished"}
            /\ t.ended
       /\ (t.ended /\ ~HasType(t.events, "error") /\ Validated(p)) =>
            EndsWith(t.events, "done")

C26_Step(p) ==
    (~HasType(turn[p].events, "done") /\ HasType(turn'[p].events, "done")) =>
        /\ pc[p] = "sendDone"
        /\ ~turn[p].ended /\ turn'[p].ended
        /\ cm'.arrays = cm.arrays
        /\ LastOf(Messages(cm, Sid(p))) = AIMessage(turn[p].savedResponse[1])

C26_PersistBeforeDone ==
    /\ [](\A p \in Turns : C26_State(p))
    /\ [][\A p \in Turns : C26_Step(p)]_vars

\* a turn with a tool call has finished: the session holds the user message and,
\* after it, the synthesis answer, and done is the last event
C26_Witness ==
    \E p \in Turns :
        /\ pc[p] = "finished"
        /\ EndsWith(turn[p].events, "done")
        /\ HasType(turn[p].events, "tool_executing")
        /\ Len(Messages(cm, Sid(p))) = 2
        /\ turn[p].synthesisParts # <<>>
        /\ LastOf(Messages(cm, Sid(p))) = AIMessage(Join(turn[p].synthesisParts))

\* ---- C27
LastAccessed(S, sid) == S.objs[S.sessions[sid]].lastAccessed

\* getOrCreateSession stamps the session with the current time, whether it finds it
\* or creates it, and so does setSessionContext, from every store the requests, the
\* sweep and the clock produce; the step that starts an addMessage or a getMessages
\* leaves the session of its id present with lastAccessed equal to the clock; and
\* lastAccessed of a session never decreases.
C27_State ==
    \A sid \in SessIds :
        Has(cm, sid) \/ CanAlloc(cm) =>
           /\ Has(getOrCreateSession(cm, sid, now), sid)
           /\ LastAccessed(getOrCreateSession(cm, sid, now), sid) = now
           /\ \A context \in Ctxs :
                 LastAccessed(setSessionContext(cm, sid, context, now), sid) = now

C27_Step ==
    /\ \A p \in Callers :
          (pc[p] = "idle" /\ pc'[p] \in {"applyMessageWindowing", "getMessagesReturn"}) =>
              /\ Has(cm', loc'[p].sid)
              /\ LastAccessed(cm', loc'[p].sid) = now
    /\ \A o \in DOMAIN cm.objs :
          cm'.objs[o].lastAccessed >= cm.objs[o].lastAccessed
    /\ \A sid \in SessIds :
          Has(cm, sid) /\ Has(cm', sid) => LastAccessed(cm', sid) >= LastAccessed(cm, sid)

C27_LastAccessedStamped ==
    [](C27_State) /\ [][C27_Step]_vars

\* s1, created at time 0 and idle since, has just been touched by a getMessages call
\* made after the clock had advanced
C27_Witness ==
    /\ Has(cm, "s1") /\ cm.sessions["s1"] = 1
    /\ LastAccessed(cm, "s1") = MaxTime
    /\ pc["c1"] = "getMessagesReturn" /\ loc["c1"].sid = "s1"
    /\ now = MaxTime

\* ---- C28
\* the messages of the array that getMessages returned to the turn
ChatHistory(p) == cm.arrays[turn[p].chatHistory]

UserMessage(p) == HumanMessage(turn[p].validation.message)

AfterSynthesisPcs ==
    {"synthesis", "applyMessageWindowing", "windowingCheck", "windowingReAdd",
     "sendDone", "getMessagesReturn", "finished"}

\* A turn makes at most two generation calls and announces tools at most once.  Once
\* the synthesis call is made the turn never returns to tool execution or to another
\* call: when the synthesis stream ends the handler fixes savedResponse to the joined
\* synthesis text and starts the append (or, on a failure, ends with the error
\* event), whether or not a chunk of the stream carried a tool call request.
C29_State(p) ==
    LET t == turn[p]
    IN /\ t.generations <= 2
       /\ CountType(t.events, "tool_executing") <= 1
       /\ t.generations = 2 =>
            /\ pc[p] \in AfterSynthesisPcs
            /\ CountType(t.events, "tool_executing") = 1

C29_Step(p) ==
    (pc[p] = "synthesis" /\ pc'[p] # "synthesis") =>
        \/ /\ pc'[p] = "applyMessageWindowing"
           /\ loc'[p].retpc = "sendDone"
           /\ turn'[p].savedResponse = <<Join(turn[p].synthesisParts)>>
           /\ turn'[p].events = turn[p].events
        \/ /\ pc'[p] = "finished"
           /\ EndsWith(turn'[p].events, "error")

C29_SynthesisIsFinal ==
    /\ [](\A p \in Turns : C29_State(p))
    /\ [][\A p \in Turns : C29_Step(p)]_vars

\* a turn has finished with done after a synthesis stream one of whose chunks carried
\* a tool call request
C29_Witness ==
    \E p \in Turns :
        /\ pc[p] = "finished"
        /\ EndsWith(turn[p].events, "done")
        /\ turn[p].generations = 2
        /\ \E k \in DOMAIN turn[p].stream2 : turn[p].stream2[k].tool_call_chunks # <<>>

\* ---- C30
\* the context the store holds for a session id, null when it holds none
StoredContext(S, sid) ==
    IF Has(S, sid) THEN S.objs[S.sessions[sid]].context ELSE Null

\* Every tool invoked in a turn receives the arguments of its call together with the
\* client context under the key _clientContext: the context is the one the store held
\* for the turn's session when the tool phase began (null when it held none), it
\* replaces a model-supplied argument of the same key, every other argument arrives
\* as the model supplied it, and all calls of the turn receive the same context.
C30_State(p) ==
    LET t == turn[p]
    IN \A k \in DOMAIN t.invoked :
          LET args == ArgsObject(t.invoked[k].args)
              input == t.invoked[k].input
          IN /\ DOMAIN input = DOMAIN args \cup {"_clientContext"}
             /\ input["_clientContext"] = t.clientContext
             /\ \A key \in DOMAIN args \ {"_clientContext"} : input[key] = args[key]
             /\ \A j \in DOMAIN t.invoked :
                   t.invoked[j].input["_clientContext"] = input["_clientContext"]

C30_Step(p) ==
    (~HasType(turn[p].events, "tool_executing")
        /\ HasType(turn'[p].events, "tool_executing")) =>
            turn'[p].clientContext = StoredContext(cm, Sid(p))

C30_ToolsReceiveContext ==
    /\ [](\A p \in Turns : C30_State(p))
    /\ [][\A p \in Turns : C30_Step(p)]_vars

\* two tools were invoked in a turn whose request stored ctxA; the second call's
\* arguments carried a _clientContext of the model's own
C30_Witness ==
    \E p \in Turns :
        /\ Len(turn[p].invoked) = 2
        /\ "_clientContext" \in DOMAIN ArgsObject(turn[p].invoked[2].args)
        /\ ArgsObject(turn[p].invoked[2].args)["_clientContext"] = "m"
        /\ turn[p].invoked[2].input["_clientContext"] = "ctxA"
        /\ turn[p].invoked[1].input["_clientContext"] = "ctxA"

\* ---- C31
\* the bridge that is handed, in a single read, the frames of the events `es` alone
OnEvents(es) ==
    LET text == Flat(Frames(es))
        fresh == [NoBridge EXCEPT !.pc = "reading", !.status = 200, !.text = text]
    IN IF text = <<>> THEN fresh ELSE OnChunk(fresh, Len(text))

\* the other item of the body has no line feed of its own: it and the frame after it
\* make one line
RunsOn(body) == body.other # <<>> /\ LastOf(body.other) # NL

\* the events of the body whose data line arrives as a line of its own
Kept(body) ==
    IF body.at = 0 THEN body.events
    ELSE SubSeq(body.events, 1, body.at - 1)
         \o SubSeq(body.events, IF RunsOn(body) THEN body.at + 1 ELSE body.at,
                   Len(body.events))

\* C31: a complete line that lacks the data prefix, does not parse as JSON or carries
\* an unknown type is skipped: the bridge writes nothing for it and does not stop.
\* Once the upstream body has been taken to its end, the output and the way the stream
\* ended are those of the same body without that line, so every well-formed line before
\* and after it is translated; and when such a line is the last one handed over, the
\* bridge is still reading with its stream open, or the upstream body has ended there.
C31_MalformedLinesSkipped ==
    /\ (Delivered /\ br.body.at # 0) =>
          LET clean == OnEvents(Kept(br.body))
          IN IF clean.pc = "closed"
             THEN br.ending = "done" /\ br.out = clean.out
             ELSE br.ending = "upstreamEnded" /\ br.out = Append(clean.out, FinishLine)
    /\ (/\ br.pc \in {"reading", "closed"} /\ br.body.at # 0
        /\ br.ending # "readThrew"
        /\ \A i \in 1..(br.body.at - 1) : br.body.events[i] # DonePayload) =>
          LET before == Len(Flat(Frames(SubSeq(br.body.events, 1, br.body.at - 1))))
              junk == Len(br.body.other)
              sofar == OnEvents(SubSeq(br.body.events, 1, br.body.at - 1)).out
          IN (br.pos = before + junk /\ ~RunsOn(br.body)) =>
                IF br.pc = "reading"
                THEN br.closes = 0 /\ br.out = sofar
                ELSE br.ending = "upstreamEnded" /\ br.out = Append(sofar, FinishLine)

\* an event of unknown type between the session event and a token event
C31_Witness ==
    /\ Delivered
    /\ br.body.at = 2
    /\ br.body.other = SSEFrame(SSEPayload("ping", <<>>))
    /\ br.body.events = <<SessionPayload, TokenPayload(<<"a">>)>>
    /\ Len(br.out) = 3

\* ---- C32
\* the prefix of the output line of an event type
PartPrefix(type) ==
    CASE type = "token" -> "0:"
      [] type \in {"tool_executing", "tool_result", "tool_error", "session"} -> "2:"
      [] type = "error" -> "3:"
      [] type = "done" -> "d:"

\* C32: when the upstream body holds the events of a response and nothing else and has
\* been taken to its end, every enqueued chunk is exactly one line, the i-th line is that
\* of the i-th event, and its prefix follows from the event's type alone: a token gives
\* 0: and its content as a JSON string, tool_executing / tool_result / tool_error /
\* session give 2: and an array holding one object with the event's type and fields,
\* error gives 3: and its message as a JSON string, done gives the d: finish line.  The
\* only line that stands for no event is the finish line written when the body ended
\* without done.
C32_Translation ==
    (Delivered /\ br.body.at = 0) =>
        LET es == br.body.events
            lines == OutLines
        IN /\ Len(lines) = Len(br.out)
           /\ \A i \in 1..Len(br.out) : br.out[i] = lines[i] \o <<NL>>
           /\ Len(lines) = Len(es) + (IF br.ending = "upstreamEnded" THEN 1 ELSE 0)
           /\ br.ending = "upstreamEnded" => LastOf(br.out) = FinishLine
           /\ \A i \in 1..Len(es) :
                LET type == TypeAt(es, i)
                    line == lines[i]
                IN /\ line[1] = PartPrefix(type)
                   /\ CASE type = "token" ->
                             Decoded(line).ok /\ Decoded(line).val = Prop(es[i], "content")
                        [] type = "error" ->
                             Decoded(line).ok /\ Decoded(line).val = Prop(es[i], "message")
                        [] type = "done" -> line \o <<NL>> = FinishLine
                        [] OTHER ->
                             Decoded(line).ok /\ Decoded(line).val = Arr(<<es[i]>>)

C32_Witness ==
    /\ Delivered
    /\ br.body.at = 0
    /\ br.body.events = <<SessionPayload, ToolExecutingPayload, ToolResultPayload, DonePayload>>
    /\ Len(br.out) = 4
    /\ br.out[3] = Annotation(ToolResultPayload)

\* ---- C37
\* the events of the upstream body in the order they are written, the late one included
AllEvents ==
    IF br.body.at = Len(br.body.events) + 1 /\ br.body.other \in {SSEFrame(e) : e \in LateEvents}
    THEN Append(br.body.events, CHOOSE e \in LateEvents : SSEFrame(e) = br.body.other)
    ELSE br.body.events

\* the events up to the first done event, that one included
UpToDone(es) ==
    LET dones == {i \in 1..Len(es) : es[i] = DonePayload}
    IN IF dones = {} THEN es
       ELSE SubSeq(es, 1, CHOOSE i \in dones : \A j \in dones : i <= j)

\* C37: the bridge closes its output stream exactly once on every path and writes
\* nothing after the close.  The stream is closed exactly when start() is over; the
\* output holds at most one finish line, which is then its last line; after a
\* translated done event the output is that of the events up to that done event,
\* whatever follows it in the same read or in later reads; and a closed bridge takes
\* no further step, so the end of the upstream body adds no second finish line.
C37_ClosedOnce ==
    /\ [](/\ br.closes <= 1
          /\ br.pc = "closed" <=> br.closes = 1
          /\ Len(LinesWith("d:")) <= 1
          /\ LinesWith("d:") # <<>> => LastOf(br.out) = FinishLine /\ br.pc = "closed"
          /\ br.ending = "done" =>
               /\ br.out = OnEvents(UpToDone(AllEvents)).out
               /\ LastOf(UpToDone(AllEvents)) = DonePayload)
    /\ [][br.pc = "closed" => br' = br]_vars
    /\ [][br.closes = 0 /\ br'.closes = 1 =>
             /\ br'.pc = "closed"
             /\ br.ending = "none" /\ br'.ending \in {"done", "upstreamEnded", "readThrew"}]_vars

\* done and a token event after it arrived in one read: only done was translated
C37_Witness ==
    /\ br.ending = "done"
    /\ br.body.events = <<SessionPayload, DonePayload>>
    /\ br.body.other = SSEFrame(TokenPayload(<<"a">>))
    /\ br.pos = Len(br.text)
    /\ br.out = <<Annotation(SessionPayload), FinishLine>>

\* ---- C38
\* no done event is among the events of the upstream body, the late one included
NoDoneAtAll == \A i \in 1..Len(AllEvents) : AllEvents[i] # DonePayload

\* C38: an upstream error event does not end the bridge's stream.  A stream whose last
\* line is an error part is closed only by a failed read; after an error event the
\* bridge goes on translating, so a body without done gives one line per event and then
\* the synthesized finish line; for an errored turn (error is the last event, no done)
\* the output ends with the error part followed by exactly one finish line.  A read
\* that fails gives an error part as last line, one close and no finish line.
C38_ErrorNotTerminal ==
    /\ (br.pc = "closed" /\ br.out # <<>> /\ LastOf(br.out)[1] = "3:") =>
          br.ending = "readThrew"
    /\ (Delivered /\ NoDoneAtAll) =>
          /\ br.ending = "upstreamEnded"
          /\ Len(br.out) = Len(AllEvents) + 1
          /\ \A i \in 1..Len(AllEvents) :
                AllEvents[i] = ErrorPayload => br.out[i] = ErrorPart(<<"boom">>)
          /\ (AllEvents # <<>> /\ LastOf(AllEvents) = ErrorPayload) =>
                /\ SubSeq(br.out, Len(br.out) - 1, Len(br.out))
                      = <<ErrorPart(<<"boom">>), FinishLine>>
                /\ Len(LinesWith("d:")) = 1
                /\ br.closes = 1
    /\ br.ending = "readThrew" =>
          /\ br.pc = "closed" /\ br.closes = 1
          /\ LastOf(br.out) = ErrorPart(<<"terminated">>)
          /\ LinesWith("d:") = <<>>

\* the response of an errored turn: session, error, and the connection closed
C38_Witness ==
    /\ Delivered
    /\ AllEvents = <<SessionPayload, ErrorPayload>>
    /\ br.out = <<Annotation(SessionPayload), ErrorPart(<<"boom">>), FinishLine>>

\* ---- C34
\* what a reader of the stage-1 stream does: the text is split on line feeds
StreamLines(text) == Split(text, 1, 1, <<>>)

ReadStep ==
    \/ pc'["c1"] # pc["c1"]
    \/ ret'.op # ret.op /\ ret'.op \in {"getSessionInfo", "getSessionContext"}

\* C35: getSessionInfo and getSessionContext only read.  A step of either leaves the
\* session map, every session object (lastAccessed included) and every message array
\* as they are, so it creates no session and no session becomes due for eviction
\* later because of it; getSessionInfo returns at once exactly for an id the map does
\* not hold (never known, cleared or evicted), and then with null; getSessionContext
\* gives the stored context, or null for such an id.
C35_ReadOnlyQueries ==
    /\ [][ReadStep =>
             /\ cm' = cm /\ now' = now /\ log' = log
             /\ \A sid \in SessIds : Expired(cm', sid, now') <=> Expired(cm, sid, now)]_vars
    /\ [][(ret'.op # ret.op /\ ret'.op = "getSessionInfo" /\ pc["c1"] = "idle") =>
             /\ ~Has(cm, ret'.sid) /\ ~Has(cm', ret'.sid)
             /\ ret'.val = Null]_vars
    /\ [][(pc["c1"] = "idle" /\ pc'["c1"] # "idle") =>
             Has(cm, loc'["c1"].sid) /\ ret'.op = ret.op]_vars
    /\ [][(ret'.op # ret.op /\ ret'.op = "getSessionContext") =>
             ret'.val = IF Has(cm, ret'.sid) THEN cm.objs[cm.sessions[ret'.sid]].context
                        ELSE Null]_vars

\* "s1" has been asked for in a store that only ever held "s2", late enough for
\* sessions to have been evicted: the request has returned and the map still lacks "s1"
C35_Witness ==
    /\ ret.op = "getSessionInfo" /\ ret.sid = "s1"
    /\ pc["c1"] = "idle"
    /\ cm.sessions["s1"] = 0
    /\ cm.sessions["s2"] = 1 /\ Len(cm.objs) = 1
    /\ now > sessionTimeout

\* ---- C33
\* the retrieval of generation pass n has settled: the pass has opened its stream, or
\* the turn has ended on the failure of that retrieval
RetrievalSettled(p, n) ==
    \/ turn[p].generations >= n
    \/ /\ pc[p] = "finished"
       /\ turn[p].generations = n - 1
       /\ EndsWith(turn[p].events, "error")
       /\ LastOf(turn[p].events).message = "retrieval failed"

C33_State(p) ==
    LET t == turn[p]
        ev == t.events
    IN /\ t.retrievals = Len(t.queries)
       /\ \A k \in DOMAIN t.queries : t.queries[k] = t.validation.message
       /\ t.retrievals <= 2
       /\ RetrievalSettled(p, 2) <=> t.retrievals = 2
       /\ (RetrievalSettled(p, 1) /\ ~RetrievalSettled(p, 2)) <=> t.retrievals = 1
       /\ pc[p] = "synthesisRetrieval" => t.retrievals = 1
       /\ t.retrievals = 2 => HasType(ev, "tool_executing") /\ t.allToolResults # <<>>
       /\ (pc[p] = "finished" /\ t.allToolResults = <<>> /\ HasType(ev, "done")) =>
             t.retrievals = 1
       /\ (pc[p] = "finished" /\ HasType(ev, "done") /\ t.allToolResults # <<>>) =>
             t.retrievals = 2
       /\ (/\ t.retrievals = 2 /\ EndsWith(ev, "error")
           /\ LastOf(ev).message = "retrieval failed") =>
             /\ pc[p] = "finished" /\ t.ended
             /\ t.savedResponse = <<>>
             /\ t.generations = 1
             /\ HasType(ev, "tool_result")
             /\ \A m \in Range(Messages(cm, Sid(p))) :
                   m.role = "assistant" => m \in Range(t.before)

\* a step that calls contextRetriever leaves the retrieval step or the synthesis
\* branch's retrieval, and every step out of either calls it once
C33_Step(p) ==
    /\ turn'[p].retrievals \in {turn[p].retrievals, turn[p].retrievals + 1}
    /\ turn'[p].retrievals = turn[p].retrievals + 1
         <=> (pc[p] \in {"retrieval", "synthesisRetrieval"} /\ pc'[p] # pc[p])
    /\ (pc[p] = "synthesisRetrieval" /\ pc'[p] = "finished") =>
          /\ EndsWith(turn'[p].events, "error")
          /\ cm' = cm

\* C33: contextRetriever is called with the request's message, once by the first
\* generation pass and once more by the synthesis branch: a turn that does not take
\* the synthesis branch calls it exactly once, a turn that takes it exactly twice.
\* When the second call fails, tool events having been written, the turn ends with
\* the error event: no second generation, no answer fixed, and no assistant message
\* appended to the session.
C33_RetrievalPerPass ==
    /\ [](\A p \in Turns : Validated(p) => C33_State(p))
    /\ [][\A p \in Turns : C33_Step(p)]_vars

\* the second retrieval failed after a tool had returned its result
C33_Witness ==
    \E p \in Turns :
        /\ pc[p] = "finished"
        /\ turn[p].retrievals = 2
        /\ turn[p].queries = <<<<"q">>, <<"q">>>>
        /\ EndsWith(turn[p].events, "error")
        /\ HasType(turn[p].events, "tool_result")
        /\ HasType(turn[p].events, "tool_error")
        /\ Len(Messages(cm, Sid(p))) = 1

\* ---- C39
ContextLess(p) == Validated(p) /\ turn[p].validation.context = Null

\* A validated request that carries no context leaves the stored client context of
\* its session unchanged: no step of such a turn, its first included, changes the
\* context the store holds for the session (null for a session the turn creates).
\* So the context an earlier request stored is the one every tool call of the later
\* context-less turn receives under _clientContext, no clear or eviction intervening.
C39_ContextKept ==
    /\ [](\A p \in Turns : ContextLess(p) =>
            \A k \in DOMAIN turn[p].invoked :
                turn[p].invoked[k].input["_clientContext"] = StoredContext(cm, Sid(p)))
    /\ [][\A p \in Turns : ContextLess(p)' =>
            StoredContext(cm', Sid(p)') = StoredContext(cm, Sid(p)')]_vars

\* an earlier request stored ctxB for s1; a later turn of s1 without a context ran
\* a tool, which received ctxB, and finished with ctxB still stored
C39_Witness ==
    \E p \in Turns :
        /\ ContextLess(p)
        /\ pc[p] = "finished"
        /\ Len(turn[p].invoked) >= 1
        /\ turn[p].invoked[1].input["_clientContext"] = "ctxB"
        /\ StoredContext(cm, Sid(p)) = "ctxB"

\* ---- C36
InFlight(p) == Validated(p) /\ pc[p] \notin {"finished", "rejected"}

DoneWritten(p) == ~HasType(turn[p].events, "done") /\ HasType(turn'[p].events, "done")

ErrorWritten(p) == ~HasType(turn[p].events, "error") /\ HasType(turn'[p].events, "error")

\* A session cleared or evicted while a turn for it is in flight does not stop the
\* turn.  The step that removes the session leaves the turn as it is; while the
\* session is gone the turn can take its next step; an error event is written only
\* by the failure of the chain, a retrieval or a generation stream, so a turn whose
\* handler has returned without one has emitted done; and the step that writes done
\* finds a session of the turn's id in the store, whose last message is the
\* assistant message with the turn's saved response.
C36_State(p) ==
    /\ (InFlight(p) /\ ~Has(cm, Sid(p)) /\ CanAlloc(cm)) => ENABLED Turn(p)
    /\ (Validated(p) /\ pc[p] = "finished" /\ ~HasType(turn[p].events, "error")) =>
          EndsWith(turn[p].events, "done")

C36_Step(p) ==
    /\ (InFlight(p) /\ Has(cm, Sid(p)) /\ ~Has(cm', Sid(p))) =>
          /\ turn'[p] = turn[p]
          /\ pc'[p] = pc[p]
          /\ Parked(p)
    /\ ErrorWritten(p) =>
          pc[p] \in {"getChain", "retrieval", "firstPass", "synthesisRetrieval", "synthesis"}
    /\ DoneWritten(p) =>
          /\ Has(cm, Sid(p)) /\ Has(cm', Sid(p))
          /\ Messages(cm', Sid(p)) # <<>>
          /\ LastOf(Messages(cm', Sid(p))) = AIMessage(turn'[p].savedResponse[1])

C36_RemovalInFlight ==
    /\ [](\A p \in Turns : C36_State(p))
    /\ [][\A p \in Turns : C36_Step(p)]_vars

\* no DELETE was ever made, yet the session of a finished turn holds the answer and
\* nothing else: the sweep evicted the session after the turn had appended the user
\* message, and the append of the answer created it again
C36_Witness ==
    \E p \in Turns :
        /\ pc[p] = "finished"
        /\ EndsWith(turn[p].events, "done")
        /\ pc["c1"] = "idle" /\ ret.op = Null
        /\ Has(cm, Sid(p))
        /\ Messages(cm, Sid(p)) = <<AIMessage(turn[p].savedResponse[1])>>
====
